---- MODULE Spec2Model ----
(***************************************************************************)
(* A model of petal_syntax/src/pos_parser.rs: the part-of-speech driven     *)
(* expression reducer, the suspendable expression task (ExpressionParsnip), *)
(* the Scope with its waiter queues, and the block driver                   *)
(* (BlockParsnip::new and BlockParsnip::parse).                             *)
(*                                                                         *)
(* Values are tagged tuples, the tag first, so that two values of different *)
(* shape always differ in their tag or in their length.                     *)
(***************************************************************************)
EXTENDS Integers, Sequences, FiniteSets, TLC

VARIABLES
    assignments,      \* BlockParsnip::new: the assignments not yet begun
    allocator,        \* Allocator.current, shared by the scope tree
    name_to_ids,      \* Scope.name_to_ids
    id_to_name,       \* Scope.id_to_name
    blocked_on_name,  \* Scope.blocked_on_name : name -> list of ParseOperation
    blocked_on_id,    \* Scope.blocked_on_id   : id   -> list of ParseOperation
    complete,         \* Scope.complete : id -> <<expr, pos>>
    failed,           \* Scope.failed   : id -> error
    unblocked,        \* Scope.unblocked : list of ParseOperation
    parent_scope,     \* Scope.parent_scope : <<>> or <<scope record>>
    pc,               \* position of the driver
    cur,              \* the ParseOperation taken by `while let Some(..) = unblocked.pop()`
    result,           \* what BlockParsnip::parse returned: <<>> or <<value>>
    block,            \* ghost: the assignments BlockParsnip::new was given
    history           \* ghost: the resolved references and wake-ups so far

vars == <<assignments, allocator, name_to_ids, id_to_name, blocked_on_name,
          blocked_on_id, complete, failed, unblocked, parent_scope, pc, cur,
          result, block, history>>

(***************************************************************************)
(* Arity, PartOfSpeech, ParseError, ParseResult                            *)
(***************************************************************************)
Unary == "Unary"
Binary == "Binary"

Noun == <<"Noun">>
Verb(arity) == <<"Verb", arity>>
Adverb(input, output) == <<"Adverb", input, output>>

DidNotFullyReduce(exprs) == <<"DidNotFullyReduce", exprs>>
ArrayLiteralNotNoun == <<"ArrayLiteralNotNoun">>
BadReference(id) == <<"BadReference", id>>
SubAssignmentFailed == <<"SubAssignmentFailed">>
CyclicAssignments == <<"CyclicAssignments">>
BlockWithoutResult == <<"BlockWithoutResult">>

\* Result<ParseResult, ParseError>
Err(e) == <<"Err", e>>
Complete(expr, pos) == <<"Complete", expr, pos>>
PendingName(name) == <<"PendingName", name>>
PendingId(id) == <<"PendingId", id>>

(***************************************************************************)
(* Term (the input alphabet) and Expression (the output tree)              *)
(***************************************************************************)
NumericLiteral(n) == <<"NumericLiteral", n>>
Coefficient(n) == <<"Coefficient", n>>
Identifier(name) == <<"Identifier", name>>
TermParens(terms) == <<"Parens", terms>>
TermBrackets(terms) == <<"Brackets", terms>>

RichIdentifier(id, name) == [id |-> id, name |-> name]

num(n) == <<"Number", n>>
ExprId(rich) == <<"Id", rich>>
Implicit(builtin) == <<"Implicit", builtin>>
unary(f, x) == <<"UnaryApplication", f, x>>
binary(f, x, y) == <<"BinaryApplication", f, x, y>>
Parens(inner) == <<"Parens", inner>>
Tuple(items) == <<"Tuple", items>>
Brackets(items) == <<"Brackets", items>>
Compound(bindings, res) == <<"Compound", bindings, res>>

(***************************************************************************)
(* ParseFrame and the finishers                                            *)
(***************************************************************************)
None == <<"None">>
Some(expr, pos) == <<"Some", expr, pos>>

ParseFrame(input, finish) ==
    [stack |-> <<None, None, None, None>>,
     input |-> input,
     end_reached |-> FALSE,
     finish |-> finish]

\* Ok(expr) is <<"Ok", expr>>; an error is Err(e).
identity(expr, pos) == <<"Ok", expr>>

wrap_parens(expr, pos) == <<"Ok", Parens(expr)>>

\* a finisher that wraps whatever the interior gave
wrap_brackets_any(expr, pos) ==
    <<"Ok", Brackets(IF expr[1] = "Tuple" THEN expr[2] ELSE <<expr>>)>>

wrap_brackets(expr, pos) ==
    IF pos = Noun
    THEN <<"Ok", Brackets(IF expr[1] = "Tuple" THEN expr[2] ELSE <<expr>>)>>
    ELSE Err(ArrayLiteralNotNoun)

\* (frame.finish)(expr, pos): the frame holds one of the three functions.
ApplyFinish(finish, expr, pos) ==
    IF finish = "identity" THEN identity(expr, pos)
    ELSE IF finish = "wrap_parens" THEN wrap_parens(expr, pos)
    ELSE wrap_brackets(expr, pos)

(***************************************************************************)
(* The pos! patterns: one stack slot against one category                  *)
(***************************************************************************)
pos_s(slot) == slot = None
pos_n(slot) == slot[1] = "Some" /\ slot[3] = Noun
pos_v(slot) == slot[1] = "Some" /\ slot[3][1] = "Verb"
pos_v1(slot) == slot[1] = "Some" /\ slot[3] = Verb(Unary)
pos_v2(slot) == slot[1] = "Some" /\ slot[3] = Verb(Binary)
pos_a1(slot) == slot[1] = "Some" /\ slot[3][1] = "Adverb" /\ slot[3][2] = Unary
pos_a2(slot) == slot[1] = "Some" /\ slot[3][1] = "Adverb" /\ slot[3][2] = Binary
pos_sn(slot) == pos_s(slot) \/ pos_n(slot)
pos_sv(slot) == pos_s(slot) \/ pos_v(slot)
pos_svn(slot) == pos_s(slot) \/ pos_v(slot) \/ pos_n(slot)
pos_vn(slot) == pos_v(slot) \/ pos_n(slot)

(***************************************************************************)
(* reduce_stack.  stack![p1, .., pk] reverses its patterns: p1 is matched   *)
(* against the last slot of the Vec (the top, the leftmost source item) and *)
(* pk against the k-th slot from the top.  Top(stack, k) is that k-th slot. *)
(***************************************************************************)
Top(stack, k) == stack[Len(stack) + 1 - k]
Below(stack, k) == SubSeq(stack, 1, Len(stack) - k)

\* a match that tries the conjunction arm before the adverb arm
MatchSlots_conjunction_first(t1, t2, t3, t4) ==
    IF pos_vn(t2) /\ pos_a2(t3) /\ pos_vn(t4) THEN 3
    ELSE IF pos_a1(t1) /\ pos_v(t2) THEN 1
    ELSE IF pos_svn(t1) /\ pos_v1(t2) /\ pos_n(t3) THEN 2
    ELSE IF pos_sv(t1) /\ pos_n(t2) /\ pos_v2(t3) /\ pos_n(t4) THEN 4
    ELSE IF pos_svn(t1) /\ pos_n(t2) /\ pos_n(t3) THEN 5
    ELSE IF pos_sv(t1) /\ pos_v1(t2) /\ pos_v1(t3) THEN 6
    ELSE IF pos_sv(t1) /\ pos_v2(t2) /\ pos_n(t3) THEN 7
    ELSE IF pos_sv(t1) /\ pos_n(t2) /\ pos_v2(t3) THEN 8
    ELSE IF pos_sv(t1) /\ pos_v2(t2) /\ pos_v1(t3) THEN 9
    ELSE IF pos_sv(t1) /\ pos_v1(t2) /\ pos_v2(t3) THEN 10
    ELSE 0

\* a match whose adverb arm takes whatever lies below the adverb
MatchSlots_adverb_over_any(t1, t2, t3, t4) ==
    IF pos_a1(t1) THEN 1
    ELSE IF pos_svn(t1) /\ pos_v1(t2) /\ pos_n(t3) THEN 2
    ELSE IF pos_vn(t2) /\ pos_a2(t3) /\ pos_vn(t4) THEN 3
    ELSE IF pos_sv(t1) /\ pos_n(t2) /\ pos_v2(t3) /\ pos_n(t4) THEN 4
    ELSE IF pos_svn(t1) /\ pos_n(t2) /\ pos_n(t3) THEN 5
    ELSE IF pos_sv(t1) /\ pos_v1(t2) /\ pos_v1(t3) THEN 6
    ELSE IF pos_sv(t1) /\ pos_v2(t2) /\ pos_n(t3) THEN 7
    ELSE IF pos_sv(t1) /\ pos_n(t2) /\ pos_v2(t3) THEN 8
    ELSE IF pos_sv(t1) /\ pos_v2(t2) /\ pos_v1(t3) THEN 9
    ELSE IF pos_sv(t1) /\ pos_v1(t2) /\ pos_v2(t3) THEN 10
    ELSE 0

\* The number of the first arm of the match that accepts the four topmost slots
\* (t1 the top), 0 for `_ => break`.
MatchSlots(t1, t2, t3, t4) ==
    IF pos_a1(t1) /\ pos_v(t2) THEN 1
    ELSE IF pos_svn(t1) /\ pos_v1(t2) /\ pos_n(t3) THEN 2
    ELSE IF pos_vn(t2) /\ pos_a2(t3) /\ pos_vn(t4) THEN 3
    ELSE IF pos_sv(t1) /\ pos_n(t2) /\ pos_v2(t3) /\ pos_n(t4) THEN 4
    ELSE IF pos_svn(t1) /\ pos_n(t2) /\ pos_n(t3) THEN 5
    ELSE IF pos_sv(t1) /\ pos_v1(t2) /\ pos_v1(t3) THEN 6
    ELSE IF pos_sv(t1) /\ pos_v2(t2) /\ pos_n(t3) THEN 7
    ELSE IF pos_sv(t1) /\ pos_n(t2) /\ pos_v2(t3) THEN 8
    ELSE IF pos_sv(t1) /\ pos_v2(t2) /\ pos_v1(t3) THEN 9
    ELSE IF pos_sv(t1) /\ pos_v1(t2) /\ pos_v2(t3) THEN 10
    ELSE 0

\* match &stack[stack.len() - 4..]
MatchingRule(stack) ==
    MatchSlots(Top(stack, 1), Top(stack, 2), Top(stack, 3), Top(stack, 4))

\* a merge that keeps the source order: the left noun first, a tuple on the
\* left extended by the right noun
MergeTuple_source_order(first, second) ==
    IF first[1] = "Tuple"
    THEN Tuple(Append(first[2], second))
    ELSE Tuple(<<first, second>>)

\* a merge that always makes a pair, also of a noun and a tuple
MergeTuple_nesting(first, second) == Tuple(<<second, first>>)

\* rule `svn, n, n`: first is the popped left noun, second the right one.
MergeTuple(first, second) ==
    IF second[1] = "Tuple"
    THEN Tuple(Append(second[2], first))
    ELSE Tuple(<<second, first>>)

\* bin_impl_lr!: lhs is popped first, rhs second.
bin_impl_lr(stack, inner, pos) ==
    Below(stack, 2) \o <<Some(binary(Implicit(inner), Top(stack, 1)[2], Top(stack, 2)[2]), pos)>>

\* a bin_impl_rl! that passes its operands in the order of the pops
bin_impl_rl_pop_order(stack, inner, pos) ==
    Below(stack, 2) \o <<Some(binary(Implicit(inner), Top(stack, 1)[2], Top(stack, 2)[2]), pos)>>

\* bin_impl_rl!: rhs is popped first, lhs second.
bin_impl_rl(stack, inner, pos) ==
    Below(stack, 2) \o <<Some(binary(Implicit(inner), Top(stack, 2)[2], Top(stack, 1)[2]), pos)>>

\* lookahead!: the rule body runs on the stack without its top slot, which is pushed back.
lookahead(stack, body) == Append(body, Top(stack, 1))

\* arm bodies whose conjunction takes its operands in the order of the pops
\* of arm 4 read backwards: the right operand first
RuleBody_conjunction_swapped(rule, s) ==
    CASE rule = 1 -> Below(s, 2) \o <<Some(unary(Top(s, 1)[2], Top(s, 2)[2]), Verb(Top(s, 1)[3][3]))>>
      [] rule = 2 -> Below(s, 2) \o <<Some(unary(Top(s, 1)[2], Top(s, 2)[2]), Noun)>>
      [] rule = 3 -> Below(s, 3) \o <<Some(binary(Top(s, 2)[2], Top(s, 3)[2], Top(s, 1)[2]), Verb(Top(s, 2)[3][3]))>>
      [] rule = 4 -> Below(s, 3) \o <<Some(binary(Top(s, 2)[2], Top(s, 1)[2], Top(s, 3)[2]), Noun)>>
      [] rule = 5 -> Below(s, 2) \o <<Some(MergeTuple(Top(s, 1)[2], Top(s, 2)[2]), Noun)>>
      [] rule = 6 -> bin_impl_lr(s, "Compose", Verb(Unary))
      [] rule = 7 -> bin_impl_lr(s, "PartialApplicationRight", Verb(Unary))
      [] rule = 8 -> bin_impl_rl(s, "PartialApplicationLeft", Verb(Unary))
      [] rule = 9 -> bin_impl_lr(s, "ComposeRight", Verb(Binary))
      [] rule = 10 -> bin_impl_rl(s, "ComposeLeft", Verb(Binary))

\* arm bodies that build the left section where the right one is due, and back
RuleBody_sections_swapped(rule, s) ==
    CASE rule = 1 -> Below(s, 2) \o <<Some(unary(Top(s, 1)[2], Top(s, 2)[2]), Verb(Top(s, 1)[3][3]))>>
      [] rule = 2 -> Below(s, 2) \o <<Some(unary(Top(s, 1)[2], Top(s, 2)[2]), Noun)>>
      [] rule = 3 -> Below(s, 3) \o <<Some(binary(Top(s, 2)[2], Top(s, 1)[2], Top(s, 3)[2]), Verb(Top(s, 2)[3][3]))>>
      [] rule = 4 -> Below(s, 3) \o <<Some(binary(Top(s, 2)[2], Top(s, 1)[2], Top(s, 3)[2]), Noun)>>
      [] rule = 5 -> Below(s, 2) \o <<Some(MergeTuple(Top(s, 1)[2], Top(s, 2)[2]), Noun)>>
      [] rule = 6 -> bin_impl_lr(s, "Compose", Verb(Unary))
      [] rule = 7 -> bin_impl_lr(s, "PartialApplicationLeft", Verb(Unary))
      [] rule = 8 -> bin_impl_rl(s, "PartialApplicationRight", Verb(Unary))
      [] rule = 9 -> bin_impl_lr(s, "ComposeRight", Verb(Binary))
      [] rule = 10 -> bin_impl_rl(s, "ComposeLeft", Verb(Binary))

\* arm bodies whose binary application pops the right operand first
RuleBody_rhs_first(rule, s) ==
    CASE rule = 1 -> Below(s, 2) \o <<Some(unary(Top(s, 1)[2], Top(s, 2)[2]), Verb(Top(s, 1)[3][3]))>>
      [] rule = 2 -> Below(s, 2) \o <<Some(unary(Top(s, 1)[2], Top(s, 2)[2]), Noun)>>
      [] rule = 3 -> Below(s, 3) \o <<Some(binary(Top(s, 2)[2], Top(s, 1)[2], Top(s, 3)[2]), Verb(Top(s, 2)[3][3]))>>
      [] rule = 4 -> Below(s, 3) \o <<Some(binary(Top(s, 2)[2], Top(s, 3)[2], Top(s, 1)[2]), Noun)>>
      [] rule = 5 -> Below(s, 2) \o <<Some(MergeTuple(Top(s, 1)[2], Top(s, 2)[2]), Noun)>>
      [] rule = 6 -> bin_impl_lr(s, "Compose", Verb(Unary))
      [] rule = 7 -> bin_impl_lr(s, "PartialApplicationRight", Verb(Unary))
      [] rule = 8 -> bin_impl_rl(s, "PartialApplicationLeft", Verb(Unary))
      [] rule = 9 -> bin_impl_lr(s, "ComposeRight", Verb(Binary))
      [] rule = 10 -> bin_impl_rl(s, "ComposeLeft", Verb(Binary))

\* The body of arm `rule`, on the stack the arm sees (after the stash, for the lookahead arms).
RuleBody(rule, s) ==
    CASE rule = 1 -> Below(s, 2) \o <<Some(unary(Top(s, 1)[2], Top(s, 2)[2]), Verb(Top(s, 1)[3][3]))>>
      [] rule = 2 -> Below(s, 2) \o <<Some(unary(Top(s, 1)[2], Top(s, 2)[2]), Noun)>>
      [] rule = 3 -> Below(s, 3) \o <<Some(binary(Top(s, 2)[2], Top(s, 1)[2], Top(s, 3)[2]), Verb(Top(s, 2)[3][3]))>>
      [] rule = 4 -> Below(s, 3) \o <<Some(binary(Top(s, 2)[2], Top(s, 1)[2], Top(s, 3)[2]), Noun)>>
      [] rule = 5 -> Below(s, 2) \o <<Some(MergeTuple(Top(s, 1)[2], Top(s, 2)[2]), Noun)>>
      [] rule = 6 -> bin_impl_lr(s, "Compose", Verb(Unary))
      [] rule = 7 -> bin_impl_lr(s, "PartialApplicationRight", Verb(Unary))
      [] rule = 8 -> bin_impl_rl(s, "PartialApplicationLeft", Verb(Unary))
      [] rule = 9 -> bin_impl_lr(s, "ComposeRight", Verb(Binary))
      [] rule = 10 -> bin_impl_rl(s, "ComposeLeft", Verb(Binary))

\* One iteration of the loop of reduce_stack, for the arm `rule` (1..10).
ApplyRule(rule, stack) ==
    IF rule = 1 THEN RuleBody(1, stack)
    ELSE lookahead(stack, RuleBody(rule, Below(stack, 1)))

RECURSIVE reduce_stack(_)
\* the loop body of reduce_stack, for the arm that matched
ReduceWith(stack, rule) ==
    IF rule = 0 THEN stack ELSE reduce_stack(ApplyRule(rule, stack))

reduce_stack(stack) == ReduceWith(stack, MatchingRule(stack))

(***************************************************************************)
(* ExpressionParsnip: the call stack of frames, provide and parse          *)
(***************************************************************************)
Last(seq) == seq[Len(seq)]
Front(seq) == SubSeq(seq, 1, Len(seq) - 1)

ExpressionParsnip(terms) == <<ParseFrame(terms, "identity")>>

\* push on the stack of the top frame
PushTop(call_stack, slot) ==
    [call_stack EXCEPT ![Len(call_stack)].stack = Append(@, slot)]

\* a provide that takes every binding for a noun
provide_noun(call_stack, id, pos) == PushTop(call_stack, Some(ExprId(id), Noun))

provide(call_stack, id, pos) == PushTop(call_stack, Some(ExprId(id), pos))

IsSome(slot) == slot # None

\* parse returns the Result and the state the task is left in.
RECURSIVE parse(_)

\* `match call_stack.last_mut()` once the closed frame's expression is finished
FrameFinished(rest, finished, pos) ==
    IF finished[1] = "Err" THEN [result |-> finished, state |-> rest]
    ELSE IF rest = <<>> THEN [result |-> Complete(finished[2], pos), state |-> rest]
    ELSE parse(PushTop(rest, Some(finished[2], pos)))

\* a close that takes the first entry and overlooks the others
CloseFrame_first_entry(rest, finish, without_sentinels) ==
    IF Len(without_sentinels) = 0
    THEN FrameFinished(rest, ApplyFinish(finish, Tuple(<<>>), Noun), Noun)
    ELSE FrameFinished(rest,
             ApplyFinish(finish, without_sentinels[1][2], without_sentinels[1][3]),
             without_sentinels[1][3])

\* the frame is popped: its stack without sentinels decides
CloseFrame(rest, finish, without_sentinels) ==
    IF Len(without_sentinels) = 0
    THEN FrameFinished(rest, ApplyFinish(finish, Tuple(<<>>), Noun), Noun)
    ELSE IF Len(without_sentinels) = 1
    THEN FrameFinished(rest,
             ApplyFinish(finish, without_sentinels[1][2], without_sentinels[1][3]),
             without_sentinels[1][3])
    ELSE [result |-> Err(DidNotFullyReduce(
              [i \in 1..Len(without_sentinels) |->
                  <<without_sentinels[i][2], without_sentinels[i][3]>>])),
          state |-> rest]

\* a shift that hands an Identifier back: the term stays on the frame's input
Shift_keeping(popped, term) ==
    CASE term[1] = "NumericLiteral" ->
            parse(PushTop(popped, Some(num(term[2]), Noun)))
      [] term[1] = "Coefficient" ->
            parse(PushTop(popped, Some(unary(Implicit("Scale"), num(term[2])), Verb(Unary))))
      [] term[1] = "Identifier" ->
            [result |-> PendingName(term[2]),
             state |-> [popped EXCEPT ![Len(popped)].input = Append(@, term)]]
      [] term[1] = "Parens" ->
            parse(Append(popped, ParseFrame(term[2], "wrap_parens")))
      [] term[1] = "Brackets" ->
            parse(Append(popped, ParseFrame(term[2], "wrap_brackets")))

\* a shift that yields an Identifier term as an identifier the host is to wait for
Shift_pending_id(popped, term) ==
    CASE term[1] = "NumericLiteral" ->
            parse(PushTop(popped, Some(num(term[2]), Noun)))
      [] term[1] = "Coefficient" ->
            parse(PushTop(popped, Some(unary(Implicit("Scale"), num(term[2])), Verb(Unary))))
      [] term[1] = "Identifier" ->
            [result |-> PendingId(term[2]), state |-> popped]
      [] term[1] = "Parens" ->
            parse(Append(popped, ParseFrame(term[2], "wrap_parens")))
      [] term[1] = "Brackets" ->
            parse(Append(popped, ParseFrame(term[2], "wrap_brackets")))

\* `Some(term) => match term`, the term already popped from the frame's input
Shift(popped, term) ==
    CASE term[1] = "NumericLiteral" ->
            parse(PushTop(popped, Some(num(term[2]), Noun)))
      [] term[1] = "Coefficient" ->
            parse(PushTop(popped, Some(unary(Implicit("Scale"), num(term[2])), Verb(Unary))))
      [] term[1] = "Identifier" ->
            [result |-> PendingName(term[2]), state |-> popped]
      [] term[1] = "Parens" ->
            parse(Append(popped, ParseFrame(term[2], "wrap_parens")))
      [] term[1] = "Brackets" ->
            parse(Append(popped, ParseFrame(term[2], "wrap_brackets")))

\* a loop that takes the terms of the input from the left end
ParseReduced_from_left(call_stack, frame) ==
    IF frame.input = <<>>
    THEN IF frame.end_reached
         THEN CloseFrame(Front(call_stack), frame.finish, SelectSeq(frame.stack, IsSome))
         ELSE parse([call_stack EXCEPT ![Len(call_stack)].end_reached = TRUE,
                                       ![Len(call_stack)].stack = Append(@, None)])
    ELSE Shift([call_stack EXCEPT ![Len(call_stack)].input = Tail(@)], Head(frame.input))

\* one iteration of the loop of parse, after reduce_stack(&mut frame.stack)
ParseReduced(call_stack, frame) ==
    IF frame.input = <<>>
    THEN IF frame.end_reached
         THEN CloseFrame(Front(call_stack), frame.finish, SelectSeq(frame.stack, IsSome))
         ELSE parse([call_stack EXCEPT ![Len(call_stack)].end_reached = TRUE,
                                       ![Len(call_stack)].stack = Append(@, None)])
    ELSE Shift([call_stack EXCEPT ![Len(call_stack)].input = Front(@)], Last(frame.input))

WithReducedTop(call_stack, stack) ==
    [call_stack EXCEPT ![Len(call_stack)].stack = stack]

ParseTop(call_stack) == ParseReduced(call_stack, Last(call_stack))

parse(call_stack) ==
    ParseTop(WithReducedTop(call_stack, reduce_stack(Last(call_stack).stack)))

(***************************************************************************)
(* HashMap and Vec helpers                                                 *)
(***************************************************************************)
EmptyMap == [k \in {} |-> k]

\* HashMap::insert
Insert(map, key, value) ==
    [k \in DOMAIN map \cup {key} |-> IF k = key THEN value ELSE map[k]]

\* a remove that leaves the entry in the map
Remove_nothing(map, key) == map

\* HashMap::remove
Remove(map, key) == [k \in DOMAIN map \ {key} |-> map[k]]

\* map.entry(key).or_insert_with(Vec::new).push(value)
PushEntry(map, key, value) ==
    Insert(map, key, Append(IF key \in DOMAIN map THEN map[key] ELSE <<>>, value))

\* the list under key, empty when the key is absent (`if let Some(parses) = map.remove(..)`)
Waiters(map, key) == IF key \in DOMAIN map THEN map[key] ELSE <<>>

\* Vec::reverse
Reverse(seq) == [i \in 1..Len(seq) |-> seq[Len(seq) + 1 - i]]

\* the ids of the operations of a list, as a set
OpIds(ops) == {ops[i].id : i \in 1..Len(ops)}

(***************************************************************************)
(* Scope: a scope is a record of the fields the lookups read; the scope of  *)
(* the block being parsed is the record of the variables.                   *)
(***************************************************************************)
ParseOperation(id, state) == [id |-> id, state |-> state]

Scope(n2i, i2n, done, bad, parent) ==
    [name_to_ids |-> n2i, id_to_name |-> i2n, complete |-> done,
     failed |-> bad, parent_scope |-> parent]

\* Scope::new(None), without the queues
NewScope == Scope(EmptyMap, EmptyMap, EmptyMap, EmptyMap, <<>>)

ThisScope == Scope(name_to_ids, id_to_name, complete, failed, parent_scope)

\* The effect of learn_name on the two name maps of a scope, for the id the allocator gave.
LearnName(scope, id, name) ==
    [scope EXCEPT !.id_to_name = Insert(@, id, name),
                  !.name_to_ids = PushEntry(@, name, id)]

\* Scope::add_builtin, for the id the allocator gave
add_builtin(scope, id, name, pos) ==
    [LearnName(scope, id, name) EXCEPT
        !.complete = Insert(@, id, <<ExprId(RichIdentifier(id, name)), pos>>)]

RECURSIVE name_of_id(_, _)
\* <<name>>, or <<>> where the code panics with "identifier not found"
name_of_id(scope, id) ==
    IF id \in DOMAIN scope.id_to_name THEN <<scope.id_to_name[id]>>
    ELSE IF scope.parent_scope = <<>> THEN <<>>
    ELSE name_of_id(scope.parent_scope[1], id)

\* lookup_previous_identifier taking the first earlier binding instead of the last
RECURSIVE lookup_previous_identifier_first(_, _, _)
lookup_previous_identifier_first(scope, name, as_of) ==
    IF name \in DOMAIN scope.name_to_ids
    THEN LET Before(id) == id < as_of
             found == SelectSeq(scope.name_to_ids[name], Before)
         IN  IF found = <<>> THEN <<>> ELSE <<Head(found)>>
    ELSE IF scope.parent_scope = <<>> THEN <<>>
    ELSE lookup_previous_identifier_first(scope.parent_scope[1], name, as_of)

\* lookup_next_identifier taking the last later binding instead of the first
RECURSIVE lookup_next_identifier_last(_, _, _)
lookup_next_identifier_last(scope, name, as_of) ==
    IF name \in DOMAIN scope.name_to_ids
    THEN LET NotBefore(id) == id >= as_of
             found == SelectSeq(scope.name_to_ids[name], NotBefore)
         IN  IF found = <<>> THEN <<>> ELSE <<Last(found)>>
    ELSE IF scope.parent_scope = <<>> THEN <<>>
    ELSE lookup_next_identifier_last(scope.parent_scope[1], name, as_of)

\* Option<Identifier> is <<>> or <<id>>
RECURSIVE lookup_previous_identifier(_, _, _)
lookup_previous_identifier(scope, name, as_of) ==
    IF name \in DOMAIN scope.name_to_ids
    THEN LET Before(id) == id < as_of
             found == SelectSeq(scope.name_to_ids[name], Before)
         IN  IF found = <<>> THEN <<>> ELSE <<Last(found)>>
    ELSE IF scope.parent_scope = <<>> THEN <<>>
    ELSE lookup_previous_identifier(scope.parent_scope[1], name, as_of)

RECURSIVE lookup_next_identifier(_, _, _)
lookup_next_identifier(scope, name, as_of) ==
    IF name \in DOMAIN scope.name_to_ids
    THEN LET NotBefore(id) == id >= as_of
             found == SelectSeq(scope.name_to_ids[name], NotBefore)
         IN  IF found = <<>> THEN <<>> ELSE <<Head(found)>>
    ELSE IF scope.parent_scope = <<>> THEN <<>>
    ELSE lookup_next_identifier(scope.parent_scope[1], name, as_of)

\* a lookup that asks the parent scope for an earlier binding before its own bindings
lookup_identifier_parent_first(scope, name, as_of) ==
    LET above == IF scope.parent_scope = <<>> THEN <<>>
                 ELSE lookup_previous_identifier(scope.parent_scope[1], name, as_of)
        previous == lookup_previous_identifier(scope, name, as_of)
    IN  IF above # <<>> THEN above
        ELSE IF previous # <<>> THEN previous
        ELSE lookup_next_identifier(scope, name, as_of)

lookup_identifier(scope, name, as_of) ==
    LET previous == lookup_previous_identifier(scope, name, as_of)
    IN  IF previous # <<>> THEN previous
        ELSE lookup_next_identifier(scope, name, as_of)

\* LookupResult
LookupUnknown == <<"Unknown">>
LookupPending(id) == <<"Pending", id>>
LookupFailed(id, error) == <<"Failed", id, error>>
LookupComplete(id, expr, pos) == <<"Complete", id, expr, pos>>

RECURSIVE lookup_by_id(_, _)
lookup_by_id(scope, id) ==
    IF id \in DOMAIN scope.complete
    THEN LookupComplete(id, scope.complete[id][1], scope.complete[id][2])
    ELSE IF id \in DOMAIN scope.failed
    THEN LookupFailed(id, scope.failed[id])
    ELSE IF scope.parent_scope = <<>> THEN LookupPending(id)
    ELSE lookup_by_id(scope.parent_scope[1], id)

lookup(scope, name, as_of) ==
    LET found == lookup_identifier(scope, name, as_of)
    IN  IF found = <<>> THEN LookupUnknown ELSE lookup_by_id(scope, found[1])

(***************************************************************************)
(* The inputs: the parent scope and the assignments of the block           *)
(***************************************************************************)
\* The largest number of assignments of a block.
MaxAssignments == 3

\* test_body's top-level scope: the seven builtins, ids 0..6.
SeededScope ==
    add_builtin(add_builtin(add_builtin(add_builtin(add_builtin(add_builtin(add_builtin(
        NewScope, 0, "+", Verb(Binary)),
                  1, "*", Verb(Binary)),
                  2, ".", Adverb(Binary, Binary)),
                  3, "fold", Adverb(Unary, Unary)),
                  4, "flip", Adverb(Unary, Binary)),
                  5, "x", Noun),
                  6, "y", Noun)

\* The parent of the block's scope: the seeded scope, in which one more
\* assignment, `ext`, has been begun (learn_name) and is not complete.
top_level_scope == LearnName(SeededScope, 7, "ext")

\* a child scope given an allocator of its own, which has issued nothing yet
FirstChildId_fresh == Cardinality(DOMAIN NewScope.id_to_name)

\* Allocator.current once the parent scope is built
FirstChildId == Cardinality(DOMAIN top_level_scope.id_to_name)

Assignment(name, expression) == [name |-> name, expression |-> expression]

\* The right-hand sides, as term vectors in source order.
One == <<NumericLiteral(1)>>                                   \* 1
Ref(name) == <<Identifier(name)>>                              \* a
Refs(left, right) == <<Identifier(left), Identifier(right)>>   \* a b
PlusOne(name) == <<Identifier(name), Identifier("+"), NumericLiteral(1)>>  \* a + 1
BadArray == <<TermBrackets(<<Identifier("+")>>)>>              \* [+]

\* The assignments the blocks are made of.  `u` is bound nowhere, `ext` is
\* the pending binding of the parent scope, `+` is a builtin.
Assignments ==
    { Assignment("a", One),
      Assignment("a", PlusOne("a")),
      Assignment("a", Ref("b")),
      Assignment("a", Refs("a", "b")),
      Assignment("b", One),
      Assignment("b", Ref("a")),
      Assignment("b", Ref("_")),
      Assignment("b", Ref("u")),
      Assignment("b", Ref("ext")),
      Assignment("b", BadArray),
      Assignment("_", One),
      Assignment("_", Ref("_")),
      Assignment("_", Refs("b", "a")) }

Blocks == UNION {[1..n -> Assignments] : n \in 0..MaxAssignments}

(***************************************************************************)
(* The ghost history: one event per lookup, provide, wake-up, completion    *)
(* and failure, in the order they happen.                                   *)
(***************************************************************************)
Event(ev, task, name, id, pos) ==
    [ev |-> ev, task |-> task, name |-> name, id |-> id, pos |-> pos]

(***************************************************************************)
(* Scope::new(Some(parent)) followed by the start of BlockParsnip::new     *)
(***************************************************************************)
InitWith(blocks) ==
    /\ assignments \in blocks
    /\ block = assignments
    /\ allocator = FirstChildId
    /\ name_to_ids = EmptyMap
    /\ id_to_name = EmptyMap
    /\ blocked_on_name = EmptyMap
    /\ blocked_on_id = EmptyMap
    /\ complete = EmptyMap
    /\ failed = EmptyMap
    /\ unblocked = <<>>
    /\ parent_scope = <<top_level_scope>>
    /\ pc = "new"
    /\ cur = <<>>
    /\ result = <<>>
    /\ history = <<>>

Init == InitWith(Blocks)

(***************************************************************************)
(* BlockParsnip::new: Scope::begin for each assignment, then the reverse   *)
(***************************************************************************)
\* a learn_name that files the waiters of the name under the new id back to front
Migrated_reversed(blocked, id, parses) ==
    IF parses = <<>> THEN blocked
    ELSE Insert(blocked, id, Waiters(blocked, id) \o Reverse(parses))

\* learn_name: blocked_on_id after each waiter of the name, in order, has been
\* passed to Scope::blocked_on_id(id, parse)
Migrated(blocked, id, parses) ==
    IF parses = <<>> THEN blocked
    ELSE Insert(blocked, id, Waiters(blocked, id) \o parses)

\* Scope::begin with Scope::learn_name
Begin ==
    /\ pc = "new"
    /\ assignments # <<>>
    /\ LET name == Head(assignments).name
           id == allocator
           parses == Waiters(blocked_on_name, name)
       IN  /\ allocator' = allocator + 1
           /\ id_to_name' = Insert(id_to_name, id, name)
           /\ blocked_on_name' = Remove(blocked_on_name, name)
           /\ blocked_on_id' = Migrated(blocked_on_id, id, parses)
           /\ name_to_ids' = PushEntry(name_to_ids, name, id)
           /\ unblocked' = Append(unblocked,
                  ParseOperation(id, ExpressionParsnip(Head(assignments).expression)))
           /\ history' = Append(history, Event("begin", id, name, id, <<>>))
           \* assert!(self.id_to_name.insert(id, name.clone()).is_none())
           /\ pc' = IF id \in DOMAIN id_to_name THEN "panic" ELSE "new"
    /\ assignments' = Tail(assignments)
    /\ UNCHANGED <<complete, failed, parent_scope, block, cur, result>>

\* scope.unblocked.reverse(); BlockParsnip(scope)
NewReverse ==
    /\ pc = "new"
    /\ assignments = <<>>
    /\ unblocked' = Reverse(unblocked)
    /\ pc' = "loop"
    /\ UNCHANGED <<assignments, allocator, name_to_ids, id_to_name, blocked_on_name,
                   blocked_on_id, complete, failed, parent_scope, block, cur, result, history>>

(***************************************************************************)
(* BlockParsnip::parse, the driver loop                                    *)
(***************************************************************************)
\* while let Some(ParseOperation { id, mut state }) = scope.unblocked.pop()
Pop ==
    /\ pc = "loop"
    /\ unblocked # <<>>
    /\ cur' = <<Last(unblocked)>>
    /\ unblocked' = Front(unblocked)
    /\ pc' = "run"
    /\ history' = Append(history, Event("pop", Last(unblocked).id, "", -1, <<>>))
    /\ UNCHANGED <<assignments, allocator, name_to_ids, id_to_name, blocked_on_name,
                   blocked_on_id, complete, failed, parent_scope, block, result>>

\* state.parse() of the task the driver holds
Parsed == parse(cur[1].state)

\* The failed map after Scope::failed(id, error), waiters being blocked_on_id[id].
FailedAfter(bad, waiters, id, error) ==
    Insert([k \in DOMAIN bad \cup OpIds(waiters) |->
               IF k \in OpIds(waiters) THEN BadReference(id) ELSE bad[k]],
           id, error)

\* a Scope::failed that gives up the tasks still queued
ScopeFailed_aborting(id, error) ==
    LET parses == Waiters(blocked_on_id, id)
    IN  /\ blocked_on_id' = Remove(blocked_on_id, id)
        /\ failed' = FailedAfter(failed, parses, id, error)
        /\ history' = history
              \o [i \in 1..Len(parses) |-> Event("fanout", parses[i].id, "", id, <<>>)]
              \o <<Event("failed", id, error[1], IF error[1] = "BadReference" THEN error[2] ELSE -1, <<>>)>>
        /\ pc' = IF id \in DOMAIN failed \cup OpIds(parses) THEN "panic" ELSE "loop"
        /\ cur' = <<>>
        /\ unblocked' = <<>>
        /\ UNCHANGED <<assignments, allocator, name_to_ids, id_to_name, blocked_on_name,
                       complete, parent_scope, block, result>>

\* Scope::failed(id, error), ending the inner loop
ScopeFailed(id, error) ==
    LET parses == Waiters(blocked_on_id, id)
    IN  /\ blocked_on_id' = Remove(blocked_on_id, id)
        /\ failed' = FailedAfter(failed, parses, id, error)
        /\ history' = history
              \o [i \in 1..Len(parses) |-> Event("fanout", parses[i].id, "", id, <<>>)]
              \o <<Event("failed", id, error[1], IF error[1] = "BadReference" THEN error[2] ELSE -1, <<>>)>>
        \* assert!(self.failed.insert(id, error).is_none())
        /\ pc' = IF id \in DOMAIN failed \cup OpIds(parses) THEN "panic" ELSE "loop"
        /\ cur' = <<>>
        /\ UNCHANGED <<assignments, allocator, name_to_ids, id_to_name, blocked_on_name,
                       complete, unblocked, parent_scope, block, result>>

\* Err(e) => { scope.failed(id, e); break; }
OnErr(parsed) ==
    /\ parsed.result[1] = "Err"
    /\ ScopeFailed(cur[1].id, parsed.result[2])

StepErr == pc = "run" /\ OnErr(Parsed)

\* Scope::complete dropping the waiters it took out of blocked_on_id
Provided_none(parses, rich_id, pos) == <<>>

\* Scope::complete pushing each waiter on `unblocked` twice
Provided_twice(parses, rich_id, pos) ==
    [i \in 1..(2 * Len(parses)) |->
        ParseOperation(parses[(i + 1) \div 2].id,
                       PushTop(parses[(i + 1) \div 2].state, Some(ExprId(rich_id), pos)))]

\* The waiters of a completed id, each provided the binding (Scope::complete).
Provided(parses, rich_id, pos) ==
    [i \in 1..Len(parses) |->
        ParseOperation(parses[i].id, provide(parses[i].state, rich_id, pos))]

\* Scope::complete(id, expr, pos), ending the inner loop
ScopeComplete(id, expr, pos, name, parses) ==
    /\ blocked_on_id' = Remove(blocked_on_id, id)
    /\ unblocked' = IF name = <<>> THEN unblocked
                    ELSE unblocked \o Provided(parses, RichIdentifier(id, name[1]), pos)
    /\ complete' = Insert(complete, id, <<expr, pos>>)
    /\ history' = history
          \o [i \in 1..Len(parses) |-> Event("wake", parses[i].id, "", id, pos)]
          \o <<Event("complete", id, "", -1, pos)>>
    \* name_of_id panics on an unknown id; assert!(self.complete.insert(..).is_none())
    /\ pc' = IF name = <<>> \/ id \in DOMAIN complete THEN "panic" ELSE "loop"
    /\ cur' = <<>>
    /\ UNCHANGED <<assignments, allocator, name_to_ids, id_to_name, blocked_on_name,
                   failed, parent_scope, block, result>>

\* Ok(ParseResult::Complete(expr, pos)) => { scope.complete(id, expr, pos); break; }
OnComplete(parsed) ==
    /\ parsed.result[1] = "Complete"
    /\ ScopeComplete(cur[1].id, parsed.result[2], parsed.result[3],
                     name_of_id(ThisScope, cur[1].id), Waiters(blocked_on_id, cur[1].id))

StepComplete == pc = "run" /\ OnComplete(Parsed)

\* LookupResult::Unknown => { scope.blocked_on_name(prereq_name, ..); break; }
OnUnknown(parsed, looked) ==
    /\ looked[1] = "Unknown"
    /\ blocked_on_name' = PushEntry(blocked_on_name, parsed.result[2],
                                    ParseOperation(cur[1].id, parsed.state))
    /\ history' = Append(history, Event("Unknown", cur[1].id, parsed.result[2], -1, <<>>))
    /\ pc' = "loop"
    /\ cur' = <<>>
    /\ UNCHANGED <<assignments, allocator, name_to_ids, id_to_name, blocked_on_id,
                   complete, failed, unblocked, parent_scope, block, result>>

\* LookupResult::Pending(prereq_id) => { scope.blocked_on_id(prereq_id, ..); break; }
OnPending(parsed, looked) ==
    /\ looked[1] = "Pending"
    /\ blocked_on_id' = PushEntry(blocked_on_id, looked[2],
                                  ParseOperation(cur[1].id, parsed.state))
    /\ history' = Append(history, Event("Pending", cur[1].id, parsed.result[2], looked[2], <<>>))
    /\ pc' = "loop"
    /\ cur' = <<>>
    /\ UNCHANGED <<assignments, allocator, name_to_ids, id_to_name, blocked_on_name,
                   complete, failed, unblocked, parent_scope, block, result>>

\* LookupResult::Failed(prereq_id, _) => { scope.failed(id, BadReference(prereq_id)); break; }
OnFailed(parsed, looked) ==
    /\ looked[1] = "Failed"
    /\ ScopeFailed(cur[1].id, BadReference(looked[2]))

\* LookupResult::Complete(prereq_id, _expr, pos) => state.provide(..), and the inner loop goes on
OnLookupComplete(parsed, looked) ==
    /\ looked[1] = "Complete"
    /\ cur' = <<ParseOperation(cur[1].id,
                  provide(parsed.state, RichIdentifier(looked[2], parsed.result[2]), looked[4]))>>
    /\ history' = Append(history, Event("Complete", cur[1].id, parsed.result[2], looked[2], looked[4]))
    /\ UNCHANGED <<assignments, allocator, name_to_ids, id_to_name, blocked_on_name,
                   blocked_on_id, complete, failed, unblocked, parent_scope, block, pc, result>>

\* scope.lookup(&prereq_name, id) for the name the task asks for
Looked(parsed) == lookup(ThisScope, parsed.result[2], cur[1].id)

AsksName(parsed) == parsed.result[1] = "PendingName"

StepUnknown == pc = "run" /\ AsksName(Parsed) /\ OnUnknown(Parsed, Looked(Parsed))

StepPending == pc = "run" /\ AsksName(Parsed) /\ OnPending(Parsed, Looked(Parsed))

StepFailed == pc = "run" /\ AsksName(Parsed) /\ OnFailed(Parsed, Looked(Parsed))

StepProvide == pc = "run" /\ AsksName(Parsed) /\ OnLookupComplete(Parsed, Looked(Parsed))

(***************************************************************************)
(* BlockParsnip::parse, after the loop: the classification                 *)
(***************************************************************************)
\* the keys of blocked_on_id that are not in id_to_name
ForeignKeys == DOMAIN blocked_on_id \ DOMAIN id_to_name

\* the classification with the cycle check left out
Arm_no_cycle ==
    IF failed # EmptyMap THEN "SubAssignmentFailed"
    ELSE IF blocked_on_name # EmptyMap THEN "PendingName"
    ELSE IF ForeignKeys # {} THEN "PendingId"
    ELSE IF "_" \notin DOMAIN name_to_ids THEN "BlockWithoutResult"
    ELSE "Compound"

\* the classification with the failure check after the pending checks
Arm_failed_last ==
    IF blocked_on_name # EmptyMap THEN "PendingName"
    ELSE IF ForeignKeys # {} THEN "PendingId"
    ELSE IF failed # EmptyMap THEN "SubAssignmentFailed"
    ELSE IF blocked_on_id # EmptyMap THEN "CyclicAssignments"
    ELSE IF "_" \notin DOMAIN name_to_ids THEN "BlockWithoutResult"
    ELSE "Compound"

\* the classification with the cycle check before the pending checks
Arm_cycle_first ==
    IF failed # EmptyMap THEN "SubAssignmentFailed"
    ELSE IF blocked_on_id # EmptyMap /\ ForeignKeys = {} THEN "CyclicAssignments"
    ELSE IF blocked_on_name # EmptyMap THEN "PendingName"
    ELSE IF ForeignKeys # {} THEN "PendingId"
    ELSE IF "_" \notin DOMAIN name_to_ids THEN "BlockWithoutResult"
    ELSE "Compound"

\* Which of the returns after the loop is taken.
Arm ==
    IF failed # EmptyMap THEN "SubAssignmentFailed"
    ELSE IF blocked_on_name # EmptyMap THEN "PendingName"
    ELSE IF ForeignKeys # {} THEN "PendingId"
    ELSE IF blocked_on_id # EmptyMap THEN "CyclicAssignments"
    ELSE IF "_" \notin DOMAIN name_to_ids THEN "BlockWithoutResult"
    ELSE "Compound"

AfterLoop == pc = "loop" /\ unblocked = <<>>

Return(value) ==
    /\ result' = <<value>>
    /\ pc' = "done"
    /\ UNCHANGED <<assignments, allocator, name_to_ids, id_to_name, blocked_on_name,
                   blocked_on_id, complete, failed, unblocked, parent_scope, block, cur, history>>

ReturnSubAssignmentFailed ==
    /\ AfterLoop
    /\ Arm = "SubAssignmentFailed"
    /\ Return(Err(SubAssignmentFailed))

\* blocked_on_name.keys().next(): any key of the HashMap
ReturnPendingName ==
    /\ AfterLoop
    /\ Arm = "PendingName"
    /\ \E name \in DOMAIN blocked_on_name : Return(PendingName(name))

\* the first key, in the HashMap's order, that id_to_name does not hold
ReturnPendingId ==
    /\ AfterLoop
    /\ Arm = "PendingId"
    /\ \E id \in ForeignKeys : Return(PendingId(id))

ReturnCyclicAssignments ==
    /\ AfterLoop
    /\ Arm = "CyclicAssignments"
    /\ Return(Err(CyclicAssignments))

ReturnBlockWithoutResult ==
    /\ AfterLoop
    /\ Arm = "BlockWithoutResult"
    /\ Return(Err(BlockWithoutResult))

\* ids.first() in place of ids.last()
ResultId_first == Head(name_to_ids["_"])

\* ids.last().unwrap(): the id whose expression is the result
ResultId == Last(name_to_ids["_"])

\* the bindings when the result is not taken out of `complete` before the drain
Bindings_all(done, names, result_id) ==
    [rich \in {RichIdentifier(id, names[id]) : id \in DOMAIN done} |-> done[rich.id][1]]

\* the drained `complete`, collected into a HashMap keyed by rich identifier
Bindings(done, names, result_id) ==
    [rich \in {RichIdentifier(id, names[id]) : id \in DOMAIN done \ {result_id}} |->
        done[rich.id][1]]

ReturnCompound ==
    /\ AfterLoop
    /\ Arm = "Compound"
    /\ IF /\ ResultId \in DOMAIN complete
          /\ DOMAIN complete \subseteq DOMAIN id_to_name
       THEN /\ result' = <<Complete(Compound(Bindings(complete, id_to_name, ResultId),
                                             complete[ResultId][1]),
                                    complete[ResultId][2])>>
            /\ complete' = EmptyMap
            /\ id_to_name' = [id \in DOMAIN id_to_name \ (DOMAIN complete \ {ResultId}) |->
                                 id_to_name[id]]
            /\ pc' = "done"
       ELSE \* one of the two unwrap() calls panics
            /\ pc' = "panic"
            /\ UNCHANGED <<result, complete, id_to_name>>
    /\ UNCHANGED <<assignments, allocator, name_to_ids, blocked_on_name, blocked_on_id,
                   failed, unblocked, parent_scope, block, cur, history>>

Next ==
    \/ Begin
    \/ NewReverse
    \/ Pop
    \/ StepErr
    \/ StepComplete
    \/ StepUnknown
    \/ StepPending
    \/ StepFailed
    \/ StepProvide
    \/ ReturnSubAssignmentFailed
    \/ ReturnPendingName
    \/ ReturnPendingId
    \/ ReturnCyclicAssignments
    \/ ReturnBlockWithoutResult
    \/ ReturnCompound

Spec == Init /\ [][Next]_vars

\* The driver is one sequential loop: a step that can be taken is taken.
FairSpec == Spec /\ WF_vars(Next)

(***************************************************************************)
(* The driver taking the runnable tasks in any order.  BlockParsnip::new   *)
(* reverses `unblocked` and parse pops its last element; the comment in new *)
(* says the order "should not alter the semantics or result of the parse", *)
(* which is what this specification lets the order vary for.               *)
(***************************************************************************)
\* the list without its element at position i
Without(seq, i) == SubSeq(seq, 1, i - 1) \o SubSeq(seq, i + 1, Len(seq))

\* the pop of the driver loop, taking any element of `unblocked`
PopAny ==
    /\ pc = "loop"
    /\ \E i \in 1..Len(unblocked) :
          /\ cur' = <<unblocked[i]>>
          /\ unblocked' = Without(unblocked, i)
          /\ history' = Append(history, Event("pop", unblocked[i].id, "", -1, <<>>))
    /\ pc' = "run"
    /\ UNCHANGED <<assignments, allocator, name_to_ids, id_to_name, blocked_on_name,
                   blocked_on_id, complete, failed, parent_scope, block, result>>

AnyOrderNext ==
    \/ Begin
    \/ NewReverse
    \/ PopAny
    \/ StepErr
    \/ StepComplete
    \/ StepUnknown
    \/ StepPending
    \/ StepFailed
    \/ StepProvide
    \/ ReturnSubAssignmentFailed
    \/ ReturnPendingName
    \/ ReturnPendingId
    \/ ReturnCyclicAssignments
    \/ ReturnBlockWithoutResult
    \/ ReturnCompound

AnyOrderSpec == Init /\ [][AnyOrderNext]_vars

(***************************************************************************)
(* One expression task driven by hand, as the tests drive it:              *)
(* parse_to_completion, and begin_parse / advance / provide of             *)
(* test_partial_parsing.  The task is held in `cur`, the terms it was made  *)
(* of in `block`, the last answer of parse in `result`.                    *)
(***************************************************************************)
\* The longest flat term vector, and the longest contents of a group.
MaxTerms == 4
MaxGroup == 2

\* the part of speech parse_to_completion provides for a name
PosOfName(name) ==
    CASE name \in {"+", "*"} -> Verb(Binary)
      [] name \in {"neg", "sign"} -> Verb(Unary)
      [] name = "." -> Adverb(Binary, Binary)
      [] name = "fold" -> Adverb(Unary, Unary)
      [] name = "flip" -> Adverb(Unary, Binary)
      [] name \in {"x", "y"} -> Noun

\* RichIdentifier::new(0, name)
TestId(name) == RichIdentifier(0, name)

\* parse_to_completion: parse, provide what is asked for, parse again
RECURSIVE parse_to_completion(_)
ProvideAndGoOn(parsed) ==
    IF parsed.result[1] = "PendingName"
    THEN parse_to_completion(provide(parsed.state, TestId(parsed.result[2]),
                                     PosOfName(parsed.result[2])))
    ELSE parsed.result

parse_to_completion(call_stack) == ProvideAndGoOn(parse(call_stack))

\* the term vectors of length at most n over a set of terms
TermVectors(terms, n) == UNION {[1..k -> terms] : k \in 0..n}

FlatTerms ==
    {NumericLiteral(1), NumericLiteral(2), Identifier("+"), Identifier("neg"),
     Identifier("fold"), Identifier("flip"), Identifier(".")}

GroupedTerms == {NumericLiteral(1), Identifier("x"), Identifier("+"), Identifier("neg")}

Groups ==
    {TermParens(terms) : terms \in TermVectors(GroupedTerms, MaxGroup)}
    \cup {TermBrackets(terms) : terms \in TermVectors(GroupedTerms, MaxGroup)}

AroundGroup ==
    {<<>>, <<NumericLiteral(1)>>, <<NumericLiteral(2)>>, <<Identifier("+")>>, <<Identifier("neg")>>}

\* inputs of the tests that are longer than MaxTerms or nest deeper
TestInputs ==
    { <<NumericLiteral(1), NumericLiteral(2), Identifier("+"), NumericLiteral(1), NumericLiteral(2)>>,
      <<NumericLiteral(1), NumericLiteral(2), NumericLiteral(3), NumericLiteral(4), NumericLiteral(5)>>,
      <<NumericLiteral(1), Identifier("+"), NumericLiteral(1), NumericLiteral(2), NumericLiteral(3),
        NumericLiteral(4), NumericLiteral(5)>>,
      <<NumericLiteral(1), Identifier("+"), TermParens(<<NumericLiteral(1), NumericLiteral(2)>>),
        NumericLiteral(3)>>,
      <<Identifier("x"), Identifier("fold"), Identifier("+"), Identifier("."), Identifier("*"),
        Identifier("y")>>,
      <<Identifier("x"), Identifier("+"), Identifier("."), Identifier("*"), Identifier("y")>>,
      <<Identifier("+"), Identifier("."), Identifier("neg"), Identifier("."), Identifier("*")>>,
      <<Identifier("x"), Identifier("fold"), Identifier("*"), Identifier("."), Identifier("fold"),
        Identifier("+"), Identifier("."), Identifier("fold"), Identifier("*"), Identifier("y")>>,
      <<TermParens(<<Identifier("flip"), Identifier("+"), NumericLiteral(1)>>), NumericLiteral(2)>>,
      <<Identifier("neg"), Identifier("+"), TermParens(<<Identifier("sign"), Identifier("neg")>>)>>,
      <<Coefficient(2), Identifier("x")>>,
      <<TermBrackets(<<Identifier("fold")>>)>>,
      <<NumericLiteral(1), TermBrackets(<<Identifier(".")>>)>>,
      <<TermBrackets(<<TermBrackets(<<NumericLiteral(1), NumericLiteral(2)>>),
                       TermBrackets(<<Identifier("x"), Identifier("y")>>)>>)>> }

Inputs ==
    TermVectors(FlatTerms, MaxTerms)
    \cup {left \o <<group>> \o right : left \in AroundGroup, group \in Groups, right \in AroundGroup}
    \cup TestInputs

\* begin_parse(input): ExpressionParsnip::new on the input
ExprInit ==
    /\ block \in {<<Assignment("_", terms)>> : terms \in Inputs}
    /\ cur = <<ParseOperation(0, ExpressionParsnip(block[1].expression))>>
    /\ pc = "begun"
    /\ result = <<>>
    /\ history = <<>>
    /\ assignments = <<>>
    /\ allocator = 0
    /\ name_to_ids = EmptyMap
    /\ id_to_name = EmptyMap
    /\ blocked_on_name = EmptyMap
    /\ blocked_on_id = EmptyMap
    /\ complete = EmptyMap
    /\ failed = EmptyMap
    /\ unblocked = <<>>
    /\ parent_scope = <<>>

\* the task after call_stack.parse(), what parse answered, and the record of
\* the call: the name asked for (or ""), the depth of the call stack, the answer
Advanced(ev, parsed) ==
    /\ cur' = <<ParseOperation(0, parsed.state)>>
    /\ result' = <<parsed.result>>
    /\ pc' = IF parsed.result[1] = "PendingName" THEN "asked" ELSE "finished"
    /\ history' = Append(history,
           Event(ev, 0, IF parsed.result[1] = "PendingName" THEN parsed.result[2] ELSE "",
                 Len(parsed.state), parsed.result))
    /\ UNCHANGED <<assignments, allocator, name_to_ids, id_to_name, blocked_on_name,
                   blocked_on_id, complete, failed, unblocked, parent_scope, block>>

\* call_stack.parse(), at the start or after a provide
Advance == pc = "begun" /\ Advanced("parse", parse(cur[1].state))

\* call_stack.provide(id(name), pos) for the name parse asked for
ProvideName ==
    /\ pc = "asked"
    /\ cur' = <<ParseOperation(0, provide(cur[1].state, TestId(result[1][2]),
                                          PosOfName(result[1][2])))>>
    /\ pc' = "begun"
    /\ history' = Append(history,
           Event("provide", 0, result[1][2], Len(cur[1].state), PosOfName(result[1][2])))
    /\ UNCHANGED <<assignments, allocator, name_to_ids, id_to_name, blocked_on_name,
                   blocked_on_id, complete, failed, unblocked, parent_scope, block, result>>

ExprNext == Advance \/ ProvideName

ExprSpec == ExprInit /\ [][ExprNext]_vars

\* call_stack.parse() called again although nothing was provided
ParseAgain == pc = "asked" /\ Advanced("again", parse(cur[1].state))

RetryNext == Advance \/ ProvideName \/ ParseAgain

RetrySpec == ExprInit /\ [][RetryNext]_vars

(***************************************************************************)
(* The expression task step by step: one state for each iteration of the   *)
(* loop of reduce_stack and for each iteration of the loop of parse, so    *)
(* that every stack the reducer sees is the stack of a state.  pc is       *)
(* "reduce" inside reduce_stack, "shift" at `match frame.input.pop()`,     *)
(* "asked" and "finished" once parse has returned, "panic" after an abort. *)
(***************************************************************************)
\* the stack of the frame parse works on
FrameStack == Last(cur[1].state).stack

\* The slots an arm takes with pop_expr and pop_adverb, in the order of the
\* pops; a lookahead arm has stashed the top slot before.
PoppedBy(rule, stack) ==
    IF rule = 1 THEN <<Top(stack, 1), Top(stack, 2)>>
    ELSE IF rule \in {3, 4} THEN <<Top(stack, 2), Top(stack, 3), Top(stack, 4)>>
    ELSE <<Top(stack, 2), Top(stack, 3)>>

\* pop_expr unwraps a sentinel, or pop_adverb (the first pop of the arm
\* `a1, v`, the second of `_, vn, a2, vn`) meets a slot that is no adverb
Aborts(rule, stack) ==
    LET popped == PoppedBy(rule, stack)
        adverbs == IF rule = 1 THEN {popped[1]} ELSE IF rule = 3 THEN {popped[2]} ELSE {}
    IN  \/ \E i \in 1..Len(popped) : popped[i] = None
        \/ \E slot \in adverbs : slot[1] # "Some" \/ slot[3][1] # "Adverb"

StepInit ==
    /\ block \in {<<Assignment("_", terms)>> : terms \in Inputs}
    /\ cur = <<ParseOperation(0, ExpressionParsnip(block[1].expression))>>
    /\ pc = "reduce"
    /\ result = <<>>
    /\ history = <<>>
    /\ assignments = <<>>
    /\ allocator = 0
    /\ name_to_ids = EmptyMap
    /\ id_to_name = EmptyMap
    /\ blocked_on_name = EmptyMap
    /\ blocked_on_id = EmptyMap
    /\ complete = EmptyMap
    /\ failed = EmptyMap
    /\ unblocked = <<>>
    /\ parent_scope = <<>>

\* the task goes on with the call stack `state`; `events` go to the history
GoesOnWith(state, at, events) ==
    /\ cur' = <<ParseOperation(0, state)>>
    /\ pc' = at
    /\ history' = history \o events
    /\ UNCHANGED <<assignments, allocator, name_to_ids, id_to_name, blocked_on_name,
                   blocked_on_id, complete, failed, unblocked, parent_scope, block, result>>

\* parse returns `value`, leaving the call stack `state`
Returns(state, value) ==
    /\ cur' = <<ParseOperation(0, state)>>
    /\ result' = <<value>>
    /\ pc' = IF value[1] = "PendingName" THEN "asked" ELSE "finished"
    /\ UNCHANGED <<assignments, allocator, name_to_ids, id_to_name, blocked_on_name,
                   blocked_on_id, complete, failed, unblocked, parent_scope, block, history>>

\* one iteration of the loop of reduce_stack: an arm runs, or `_ => break`
ReduceOnce ==
    /\ pc = "reduce"
    /\ IF Len(FrameStack) < 4
       THEN \* &stack[stack.len() - 4..] is out of range
            GoesOnWith(cur[1].state, "panic", <<>>)
       ELSE IF MatchingRule(FrameStack) = 0
       THEN GoesOnWith(cur[1].state, "shift", <<>>)
       ELSE IF Aborts(MatchingRule(FrameStack), FrameStack)
       THEN GoesOnWith(cur[1].state, "panic", <<>>)
       ELSE \* the history notes the arm and the slot on top of the stack
            GoesOnWith(WithReducedTop(cur[1].state,
                           ApplyRule(MatchingRule(FrameStack), FrameStack)),
                       "reduce",
                       <<Event("arm", 0, "", MatchingRule(FrameStack), Top(FrameStack, 1))>>)

\* one iteration of the loop of parse after reduce_stack: `match frame.input.pop()`
LoopOnce ==
    /\ pc = "shift"
    /\ LET frame == Last(cur[1].state)
           rest == Front(cur[1].state)
           popped == [cur[1].state EXCEPT ![Len(cur[1].state)].input = Front(@)]
           term == Last(frame.input)
           without_sentinels == SelectSeq(frame.stack, IsSome)
           \* Ok((expr, pos)) for a closed frame of at most one entry
           closed == IF Len(without_sentinels) = 0 THEN <<Tuple(<<>>), Noun>>
                     ELSE <<without_sentinels[1][2], without_sentinels[1][3]>>
           finished == ApplyFinish(frame.finish, closed[1], closed[2])
       IN  IF frame.input = <<>>
           THEN IF frame.end_reached
                THEN \* the frame is popped and closed
                     IF Len(without_sentinels) > 1
                     THEN Returns(rest, Err(DidNotFullyReduce(
                              [i \in 1..Len(without_sentinels) |->
                                  <<without_sentinels[i][2], without_sentinels[i][3]>>])))
                     ELSE IF finished[1] = "Err" THEN Returns(rest, finished)
                     ELSE IF rest = <<>> THEN Returns(rest, Complete(finished[2], closed[2]))
                     ELSE GoesOnWith(PushTop(rest, Some(finished[2], closed[2])), "reduce", <<>>)
                ELSE GoesOnWith([cur[1].state EXCEPT ![Len(cur[1].state)].end_reached = TRUE,
                                                     ![Len(cur[1].state)].stack = Append(@, None)],
                                "reduce", <<>>)
           ELSE IF term[1] = "Identifier"
           THEN Returns(popped, PendingName(term[2]))
           ELSE GoesOnWith(
                    CASE term[1] = "NumericLiteral" ->
                            PushTop(popped, Some(num(term[2]), Noun))
                      [] term[1] = "Coefficient" ->
                            PushTop(popped,
                                    Some(unary(Implicit("Scale"), num(term[2])), Verb(Unary)))
                      [] term[1] = "Parens" ->
                            Append(popped, ParseFrame(term[2], "wrap_parens"))
                      [] term[1] = "Brackets" ->
                            Append(popped, ParseFrame(term[2], "wrap_brackets")),
                    "reduce", <<>>)

\* call_stack.provide(id(name), pos), and parse is called again
ProvideStep ==
    /\ pc = "asked"
    /\ GoesOnWith(provide(cur[1].state, TestId(result[1][2]), PosOfName(result[1][2])),
                  "reduce", <<>>)

StepNext == ReduceOnce \/ LoopOnce \/ ProvideStep

StepSpec == StepInit /\ [][StepNext]_vars

(***************************************************************************)
(* parse_body called again on the scope it returned: the assignments of    *)
(* the next body are begun in the scope the earlier parse left behind,     *)
(* with its tasks still parked in blocked_on_name and blocked_on_id.       *)
(***************************************************************************)
\* The largest number of assignments begun in one scope, all bodies together.
MaxResumed == 3

\* `u` is bound by a later body only; `a = a` is a cycle; `ext` is pending in the parent.
ResumeAssignments ==
    { Assignment("a", Ref("u")),
      Assignment("b", Ref("u")),
      Assignment("u", One),
      Assignment("u", BadArray),
      Assignment("a", Ref("a")),
      Assignment("a", Ref("ext")),
      Assignment("_", Ref("a")),
      Assignment("_", One) }

Bodies(n) == UNION {[1..k -> ResumeAssignments] : k \in 0..n}

\* parse_body(scope, assignments) on the scope of a parse that did not
\* return the block's expression (that return drains the scope)
ParseBody ==
    /\ pc = "done"
    /\ result[1][1] # "Complete"
    /\ \E more \in Bodies(MaxResumed - Len(block)) \ {<<>>} :
          /\ assignments' = more
          /\ block' = block \o more
    /\ pc' = "new"
    /\ result' = <<>>
    /\ UNCHANGED <<allocator, name_to_ids, id_to_name, blocked_on_name, blocked_on_id,
                   complete, failed, unblocked, parent_scope, cur, history>>

ResumeNext ==
    \/ Begin
    \/ NewReverse
    \/ Pop
    \/ StepErr
    \/ StepComplete
    \/ StepUnknown
    \/ StepPending
    \/ StepFailed
    \/ StepProvide
    \/ ReturnSubAssignmentFailed
    \/ ReturnPendingName
    \/ ReturnPendingId
    \/ ReturnCyclicAssignments
    \/ ReturnBlockWithoutResult
    \/ ReturnCompound
    \/ ParseBody

ResumeSpec == InitWith(Bodies(MaxResumed - 1)) /\ [][ResumeNext]_vars

(***************************************************************************)
(* The same block parsed twice, each time in a fresh scope: first as       *)
(* BlockParsnip::new queues it, with the reverse, so that the driver runs  *)
(* the assignments top-to-bottom, then without the reverse, bottom-to-top. *)
(* The history keeps, in a "restart" event, what the first parse came to.  *)
(***************************************************************************)
\* the position of the "restart" event in the history, 0 before the second parse
RestartedAt ==
    IF \E i \in 1..Len(history) : history[i].ev = "restart"
    THEN CHOOSE i \in 1..Len(history) : history[i].ev = "restart"
    ELSE 0

\* where assignment id stands: failed with its error, complete with its
\* expression and part of speech, parked on an identifier or on a name, or
\* drained into the Compound that parse returned
StatusOf(id) ==
    IF id \in DOMAIN failed THEN <<"Failed", failed[id]>>
    ELSE IF id \in DOMAIN complete THEN <<"Complete", complete[id][1], complete[id][2]>>
    ELSE IF \E k \in DOMAIN blocked_on_id : id \in OpIds(blocked_on_id[k])
    THEN <<"BlockedOnId", CHOOSE k \in DOMAIN blocked_on_id : id \in OpIds(blocked_on_id[k])>>
    ELSE IF \E name \in DOMAIN blocked_on_name : id \in OpIds(blocked_on_name[name])
    THEN <<"BlockedOnName",
           CHOOSE name \in DOMAIN blocked_on_name : id \in OpIds(blocked_on_name[name])>>
    ELSE <<"Drained">>

\* What a parse came to: the status of each assignment, the part of speech
\* each completion had, and what parse returned.  A pending yield names
\* whichever key the HashMap gives first, so of a yield only the kind is kept.
Outcome ==
    [status |-> [id \in FirstChildId..(allocator - 1) |-> StatusOf(id)],
     completions |-> {<<history[i].task, history[i].pos>> :
                         i \in {j \in (RestartedAt + 1)..Len(history) : history[j].ev = "complete"}},
     returned |-> IF result[1][1] \in {"PendingName", "PendingId"}
                  THEN <<result[1][1]>> ELSE result[1]]

\* BlockParsnip::new, lines 566-580, for the first parse: with the reverse
NewReversed == RestartedAt = 0 /\ NewReverse

\* BlockParsnip::new without `scope.unblocked.reverse()`: the driver pops the
\* last assignment begun first
NewInOrder ==
    /\ RestartedAt # 0
    /\ pc = "new"
    /\ assignments = <<>>
    /\ pc' = "loop"
    /\ UNCHANGED <<assignments, allocator, name_to_ids, id_to_name, blocked_on_name,
                   blocked_on_id, complete, failed, unblocked, parent_scope, block, cur,
                   result, history>>

\* test_body called again with the same assignments: a new child scope of
\* the same top-level scope
ParseOtherOrder ==
    /\ pc = "done"
    /\ RestartedAt = 0
    /\ assignments' = block
    /\ allocator' = FirstChildId
    /\ name_to_ids' = EmptyMap
    /\ id_to_name' = EmptyMap
    /\ blocked_on_name' = EmptyMap
    /\ blocked_on_id' = EmptyMap
    /\ complete' = EmptyMap
    /\ failed' = EmptyMap
    /\ unblocked' = <<>>
    /\ pc' = "new"
    /\ cur' = <<>>
    /\ result' = <<>>
    /\ history' = Append(history, Event("restart", -1, "", -1, Outcome))
    /\ UNCHANGED <<parent_scope, block>>

BothOrdersNext ==
    \/ Begin
    \/ NewReversed
    \/ NewInOrder
    \/ Pop
    \/ StepErr
    \/ StepComplete
    \/ StepUnknown
    \/ StepPending
    \/ StepFailed
    \/ StepProvide
    \/ ReturnSubAssignmentFailed
    \/ ReturnPendingName
    \/ ReturnPendingId
    \/ ReturnCyclicAssignments
    \/ ReturnBlockWithoutResult
    \/ ReturnCompound
    \/ ParseOtherOrder

BothOrdersSpec == Init /\ [][BothOrdersNext]_vars

(***************************************************************************)
(* Blocks that bind names of the parent scope again: `x`, a builtin noun   *)
(* that is complete there, and `ext`, which is pending there.              *)
(***************************************************************************)
ShadowAssignments ==
    { Assignment("x", One),
      Assignment("x", Ref("x")),
      Assignment("x", BadArray),
      Assignment("ext", One),
      Assignment("a", Ref("x")),
      Assignment("a", Ref("ext")),
      Assignment("a", Ref("u")),
      Assignment("_", Ref("x")),
      Assignment("_", PlusOne("x")) }

ShadowSpec ==
    /\ InitWith(UNION {[1..n -> ShadowAssignments] : n \in 0..MaxAssignments})
    /\ [][Next]_vars

(***************************************************************************)
(* What the properties below speak of                                      *)
(***************************************************************************)
\* the identifiers this scope binds to a name
LocalIds(name) ==
    IF name \in DOMAIN name_to_ids
    THEN {name_to_ids[name][i] : i \in 1..Len(name_to_ids[name])}
    ELSE {}

\* an event of scope.lookup answering with an identifier
IsLookup(e) == e.ev \in {"Pending", "Failed", "Complete"}

\* the local bindings of the looked-up name before, and not before, the asking task
Earlier(e) == {q \in LocalIds(e.name) : q < e.task}
NotEarlier(e) == {q \in LocalIds(e.name) : q >= e.task}

IsForward(e) == IsLookup(e) /\ Earlier(e) = {} /\ NotEarlier(e) # {}

\* the positions of the history at which Scope::complete recorded id
CompletedAt(id) ==
    {i \in 1..Len(history) : history[i].ev = "complete" /\ history[i].task = id}

\* task waits in the list blocked_on_id keeps under id
Parked(task, id) == task \in OpIds(Waiters(blocked_on_id, id))

(***************************************************************************)
(* C1: back-reference preference                                           *)
(***************************************************************************)
\* C1: whenever scope.lookup(name, as_of) answers and the scope binds the name
\* to at least one identifier smaller than as_of, the identifier it chose is the
\* largest local identifier strictly less than as_of: never the asking
\* assignment itself, never a later binding, never an older one.
C1_BackReference ==
    \A i \in 1..Len(history) :
        IsLookup(history[i]) /\ Earlier(history[i]) # {}
            => /\ history[i].id \in Earlier(history[i])
               /\ \A q \in Earlier(history[i]) : q <= history[i].id

\* a = 1; a = a + 1; a = a + 1: the third assignment has two earlier bindings
\* to choose from and was given the nearer one
C1_Witness ==
    \E i \in 1..Len(history) :
        /\ IsLookup(history[i])
        /\ Cardinality(Earlier(history[i])) >= 2
        /\ history[i].id + 1 = history[i].task

(***************************************************************************)
(* C2: forward reference                                                   *)
(***************************************************************************)
\* C2, as stated: a reference with no earlier local binding resolves to the
\* smallest local identifier >= the asking one, and when that binding is another
\* assignment that completes, the asking task was parked on it and, where the
\* asking task completes too, it completes after it.
C2_AsStated ==
    \A i \in 1..Len(history) :
        IsForward(history[i])
            => /\ history[i].id \in NotEarlier(history[i])
               /\ \A q \in NotEarlier(history[i]) : history[i].id <= q
               /\ (/\ history[i].id # history[i].task
                   /\ CompletedAt(history[i].id) # {}
                   /\ CompletedAt(history[i].task) # {})
                      => /\ history[i].ev = "Pending"
                         /\ \E j \in CompletedAt(history[i].task) :
                                \E k \in CompletedAt(history[i].id) : k < j

\* C2, amended: a reference with no earlier local binding resolves to the
\* smallest local identifier >= the asking one.  When that binding is another
\* assignment, the asking task is parked on it if the binding was not complete
\* at the lookup (and then stays parked until the binding's completion wakes it
\* or its failure fans out to it), and is provided the binding at once only if
\* the binding had completed before; the asking task never completes before it.
C2_ForwardReference ==
    \A i \in 1..Len(history) :
        IsForward(history[i])
            => /\ history[i].id \in NotEarlier(history[i])
               /\ \A q \in NotEarlier(history[i]) : history[i].id <= q
               /\ history[i].id # history[i].task
                      => /\ history[i].ev = "Pending"
                              => /\ \A k \in CompletedAt(history[i].id) : k > i
                                 /\ \/ Parked(history[i].task, history[i].id)
                                    \/ \E j \in (i + 1)..Len(history) :
                                          /\ history[j].ev \in {"wake", "fanout"}
                                          /\ history[j].task = history[i].task
                                          /\ history[j].id = history[i].id
                         /\ history[i].ev = "Complete"
                              => \E k \in CompletedAt(history[i].id) : k < i
                         /\ \A j \in CompletedAt(history[i].task) :
                                \E k \in CompletedAt(history[i].id) : k < j

\* a = b; b = 1: a was parked on the later b, woken by it, and completed after it
C2_Witness ==
    \E i \in 1..Len(history) :
        /\ IsForward(history[i])
        /\ history[i].ev = "Pending"
        /\ history[i].id > history[i].task
        /\ \E j \in CompletedAt(history[i].task) :
              \E k \in CompletedAt(history[i].id) : i < k /\ k < j

(***************************************************************************)
(* The references of the block, read off its text                          *)
(***************************************************************************)
\* the names a term vector mentions, those inside parentheses and brackets too
RECURSIVE TermNames(_)
TermNames(terms) ==
    IF terms = <<>> THEN {}
    ELSE (IF Head(terms)[1] = "Identifier" THEN {Head(terms)[2]}
          ELSE IF Head(terms)[1] \in {"Parens", "Brackets"} THEN TermNames(Head(terms)[2])
          ELSE {})
         \cup TermNames(Tail(terms))

\* the identifiers given to the assignments of the block, in order
BlockIds == {FirstChildId + i - 1 : i \in 1..Len(block)}

NamesOf(id) == TermNames(block[id - FirstChildId + 1].expression)

\* name, mentioned by assignment id, means the assignment p of the block: the
\* nearest earlier binding of the name, or without one the nearest other one
Means(name, id, p) ==
    /\ p \in LocalIds(name)
    /\ IF Earlier([name |-> name, task |-> id]) # {}
       THEN p < id /\ \A q \in Earlier([name |-> name, task |-> id]) : q <= p
       ELSE \A q \in LocalIds(name) : p <= q

\* the assignments of the block that assignment id references
References(id) == {p \in BlockIds : \E name \in NamesOf(id) : Means(name, id, p)}

RECURSIVE ReachableFrom(_)
ReachableFrom(ids) ==
    IF UNION {References(id) : id \in ids} \subseteq ids THEN ids
    ELSE ReachableFrom(ids \cup UNION {References(id) : id \in ids})

\* the assignments id references directly or through a chain of references
Reaches(id) == ReachableFrom(References(id))

OnCycle(id) == id \in Reaches(id)

\* the participants of the cycles through id
CycleOf(id) == {p \in Reaches(id) : id \in Reaches(p)}

\* every name the assignment mentions is bound in the block or complete in the
\* enclosing scope
AllBound(id) ==
    \A name \in NamesOf(id) :
        \/ LocalIds(name) # {}
        \/ lookup(parent_scope[1], name, id)[1] = "Complete"

\* id and everything it reaches mention bound names only and lie on no cycle
Resolvable(id) ==
    \A p \in {id} \cup Reaches(id) : AllBound(p) /\ ~OnCycle(p)

(***************************************************************************)
(* C3: cycle detection                                                     *)
(***************************************************************************)
\* C3, as stated: when parse has returned with nothing failed and no task
\* waiting on an unknown name, every assignment that lies on a cycle of
\* references makes the result CyclicAssignments and is a waiter in
\* blocked_on_id under the identifier of a participant of its cycle.
C3_AsStated ==
    (pc = "done" /\ DOMAIN failed = {} /\ DOMAIN blocked_on_name = {})
        => \A t \in BlockIds :
              OnCycle(t) => /\ result = <<Err(CyclicAssignments)>>
                            /\ \E p \in CycleOf(t) : Parked(t, p)

\* C3, amended: when parse has returned with nothing failed, no task waiting on
\* an unknown name and no task waiting on an identifier of an enclosing scope,
\* every assignment that lies on a cycle of references makes the result
\* CyclicAssignments and is a waiter in blocked_on_id under the identifier of an
\* assignment of the block that it references and that is itself still parked
\* on an assignment of the block (a participant of the cycle or not).
C3_CycleDetection ==
    (/\ pc = "done"
     /\ DOMAIN failed = {}
     /\ DOMAIN blocked_on_name = {}
     /\ DOMAIN blocked_on_id \subseteq BlockIds)
        => \A t \in BlockIds :
              OnCycle(t) => /\ result = <<Err(CyclicAssignments)>>
                            /\ \E p \in References(t) :
                                  /\ Parked(t, p)
                                  /\ p \notin DOMAIN complete
                                  /\ \E q \in BlockIds : Parked(p, q)

\* a = b; b = a: two participants, each parked under the other
C3_Witness ==
    /\ pc = "done"
    /\ result = <<Err(CyclicAssignments)>>
    /\ \E t \in BlockIds :
          \E p \in CycleOf(t) \ {t} : Parked(t, p) /\ Parked(p, t)

(***************************************************************************)
(* C4: transitive failure propagation                                      *)
(***************************************************************************)
\* C4: when parse has returned, every assignment that references a failed
\* assignment directly or through a chain of references is recorded in `failed`
\* with a BadReference error.  (Stated for the assignments whose names are all
\* bound and that reach no cycle, for which nothing else can keep them parked.)
C4_TransitiveFailure ==
    pc = "done"
        => \A f \in DOMAIN failed :
              \A t \in BlockIds \ {f} :
                  (Resolvable(t) /\ f \in Reaches(t))
                      => /\ t \in DOMAIN failed
                         /\ failed[t][1] = "BadReference"

(***************************************************************************)
(* C5: direct failure fan-out                                              *)
(***************************************************************************)
\* C5: a task that was parked on p when p was recorded as failed, or that looked
\* p up after p had failed, is recorded as failed with BadReference(p), and no
\* task is taken up by the driver again once it is recorded as failed.
C5_DirectFanOut ==
    \A i \in 1..Len(history) :
        /\ (history[i].ev = "Pending" /\ history[i].id \in DOMAIN failed)
              => /\ history[i].task \in DOMAIN failed
                 /\ failed[history[i].task] = BadReference(history[i].id)
        /\ history[i].ev = "Failed"
              => /\ history[i].task \in DOMAIN failed
                 /\ failed[history[i].task] = BadReference(history[i].id)
        /\ history[i].ev = "pop"
              => \A k \in 1..(i - 1) :
                    ~(/\ history[k].ev \in {"fanout", "failed"}
                      /\ history[k].task = history[i].task)

(***************************************************************************)
(* C6: status exclusivity                                                  *)
(***************************************************************************)
\* how often id occurs in a list of parse operations
Occurrences(ops, id) == Cardinality({i \in 1..Len(ops) : ops[i].id = id})

\* how often id occurs in the waiter lists of a map, over the given keys
RECURSIVE OccurrencesIn(_, _, _)
OccurrencesIn(map, keys, id) ==
    IF keys = {} THEN 0
    ELSE Occurrences(map[CHOOSE k \in keys : TRUE], id)
         + OccurrencesIn(map, keys \ {CHOOSE k \in keys : TRUE}, id)

\* the number of places that hold id: complete, failed, the waiter lists,
\* unblocked, and the operation the driver has popped and is running
Holders(id) ==
    (IF id \in DOMAIN complete THEN 1 ELSE 0)
    + (IF id \in DOMAIN failed THEN 1 ELSE 0)
    + OccurrencesIn(blocked_on_name, DOMAIN blocked_on_name, id)
    + OccurrencesIn(blocked_on_id, DOMAIN blocked_on_id, id)
    + Occurrences(unblocked, id)
    + Occurrences(cur, id)

\* the final Compound has been built, which drains `complete`
Drained == pc = "done" /\ result[1][1] = "Complete"

\* C6: in every state of the driver each assignment identifier is held in at
\* most one of complete, failed, a blocked_on_name list, a blocked_on_id list
\* and unblocked, and at most once; an identifier that Scope::complete or
\* Scope::failed recorded is recorded once only and keeps that entry (complete
\* until the final Compound is built); no assertion of the scope fails.
C6_StatusExclusivity ==
    /\ pc # "panic"
    /\ \A id \in DOMAIN id_to_name \cup BlockIds : Holders(id) <= 1
    /\ \A i \in 1..Len(history) :
          /\ history[i].ev = "complete"
                => /\ Drained \/ history[i].task \in DOMAIN complete
                   /\ history[i].task \notin DOMAIN failed
          /\ history[i].ev = "failed"
                => /\ history[i].task \in DOMAIN failed
                   /\ failed[history[i].task][1] = history[i].name
                   /\ history[i].task \notin DOMAIN complete
          /\ history[i].ev = "fanout"
                => /\ history[i].task \in DOMAIN failed
                   /\ failed[history[i].task] = BadReference(history[i].id)
          /\ history[i].ev \in {"complete", "failed", "fanout"}
                => \A k \in 1..Len(history) :
                      (/\ history[k].ev \in {"complete", "failed", "fanout"}
                       /\ history[k].task = history[i].task) => k = i

\* a = b; b = 1; b = [+]: the loop has ended, a task went from a waiter list
\* through unblocked into complete, and another assignment failed
C6_Witness ==
    /\ pc = "loop"
    /\ unblocked = <<>>
    /\ DOMAIN failed # {}
    /\ \E i \in 1..Len(history) :
          /\ history[i].ev = "wake"
          /\ history[i].task \in DOMAIN complete
          /\ Holders(history[i].task) = 1

(***************************************************************************)
(* C7: failure dominates the classification                                *)
(***************************************************************************)
\* C7: parse returns SubAssignmentFailed if and only if `failed` is non-empty
\* when the loop ends, whatever else is parked and whether or not `_` is bound.
C7_FailureDominates ==
    pc = "done" => (result = <<Err(SubAssignmentFailed)>> <=> DOMAIN failed # {})

\* b = u; a = a + 1; b = [+]: one failure, a task parked on an unknown name,
\* a task parked on an identifier, and no `_`
C7_Witness ==
    /\ pc = "done"
    /\ result = <<Err(SubAssignmentFailed)>>
    /\ DOMAIN blocked_on_name # {}
    /\ DOMAIN blocked_on_id # {}
    /\ LocalIds("_") = {}

(***************************************************************************)
(* C8: the order of the pending outcomes                                   *)
(***************************************************************************)
\* C8: when nothing failed, parse yields PendingName(n), n a name with a parked
\* task, if any task is parked on a name; otherwise PendingId(p), p the key of a
\* waiter list and not bound in this scope, if there is such a key; and
\* CyclicAssignments exactly when neither is the case and a waiter list remains.
C8_PendingOrder ==
    (pc = "done" /\ DOMAIN failed = {})
        => /\ DOMAIN blocked_on_name # {}
                => \E n \in DOMAIN blocked_on_name :
                      result = <<PendingName(n)>> /\ blocked_on_name[n] # <<>>
           /\ (DOMAIN blocked_on_name = {} /\ ~(DOMAIN blocked_on_id \subseteq DOMAIN id_to_name))
                => \E p \in DOMAIN blocked_on_id :
                      /\ result = <<PendingId(p)>>
                      /\ p \notin DOMAIN id_to_name
                      /\ p \notin BlockIds
           /\ result = <<Err(CyclicAssignments)>>
                <=> /\ DOMAIN blocked_on_name = {}
                    /\ DOMAIN blocked_on_id \subseteq DOMAIN id_to_name
                    /\ DOMAIN blocked_on_id # {}

\* a = a + 1; b = u: a local cycle and a reference to an unknown name
C8_Witness ==
    /\ pc = "done"
    /\ result = <<PendingName("u")>>
    /\ \E t \in BlockIds : OnCycle(t) /\ Parked(t, t)

(***************************************************************************)
(* C9: the block result                                                    *)
(***************************************************************************)
\* the largest element of a non-empty set of identifiers
Largest(ids) == CHOOSE id \in ids : \A other \in ids : other <= id

\* C9: the step parse takes when the loop has ended with nothing failed and
\* nothing parked returns BlockWithoutResult if the scope binds no `_`;
\* otherwise the largest identifier bound to `_` is in `complete` and the step
\* returns a Compound whose result is the expression completed for it, tagged
\* with its part of speech, and whose bindings hold exactly one entry, the
\* completed expression, for every other identifier of `complete`.
C9_BlockResult ==
    [][(/\ pc = "loop"
        /\ unblocked = <<>>
        /\ DOMAIN failed = {}
        /\ DOMAIN blocked_on_name = {}
        /\ DOMAIN blocked_on_id = {})
          => /\ pc' = "done"
             /\ IF LocalIds("_") = {}
                THEN result' = <<Err(BlockWithoutResult)>>
                ELSE /\ Largest(LocalIds("_")) \in DOMAIN complete
                     /\ result'[1][1] = "Complete"
                     /\ result'[1][2][1] = "Compound"
                     /\ result'[1][2][3] = complete[Largest(LocalIds("_"))][1]
                     /\ result'[1][3] = complete[Largest(LocalIds("_"))][2]
                     /\ {rich.id : rich \in DOMAIN result'[1][2][2]}
                            = DOMAIN complete \ {Largest(LocalIds("_"))}
                     /\ Cardinality(DOMAIN result'[1][2][2])
                            = Cardinality(DOMAIN complete) - 1
                     /\ \A rich \in DOMAIN result'[1][2][2] :
                            /\ result'[1][2][2][rich] = complete[rich.id][1]
                            /\ rich.name = id_to_name[rich.id]]_vars

\* a = 1; _ = 1; _ = _: the result is the second `_`, the bindings are the other two
C9_Witness ==
    /\ pc = "done"
    /\ result[1][1] = "Complete"
    /\ Cardinality(LocalIds("_")) = 2
    /\ Cardinality(DOMAIN result[1][2][2]) = Len(block) - 1
    /\ Len(block) = MaxAssignments

(***************************************************************************)
(* C10: the bindings and the sentinel                                      *)
(***************************************************************************)
\* C10, as stated: no key of the bindings of a Compound that parse produced is
\* a rich identifier named `_`.
C10_AsStated ==
    (pc = "done" /\ result[1][1] = "Complete")
        => \A rich \in DOMAIN result[1][2][2] : rich.name # "_"

\* C10, amended: the bindings of a Compound that parse produced omit the binding
\* whose value became the result, the last `_` of the block: no key carries its
\* identifier.  Every earlier `_` of the block is a key, so no key is named `_`
\* exactly when the block assigns `_` once.
C10_BindingsOmitResult ==
    (pc = "done" /\ result[1][1] = "Complete")
        => /\ \A rich \in DOMAIN result[1][2][2] :
                /\ rich.id # Largest(LocalIds("_"))
                /\ rich.name = "_" => rich.id \in LocalIds("_")
           /\ \A id \in LocalIds("_") \ {Largest(LocalIds("_"))} :
                RichIdentifier(id, "_") \in DOMAIN result[1][2][2]
           /\ Cardinality(LocalIds("_")) = 1
                => \A rich \in DOMAIN result[1][2][2] : rich.name # "_"

\* _ = 1; _ = _: the first `_` is a key of the bindings, the second is the result
C10_Witness ==
    /\ pc = "done"
    /\ result[1][1] = "Complete"
    /\ \E rich \in DOMAIN result[1][2][2] :
          rich.name = "_" /\ result[1][2][3] = ExprId(rich)

(***************************************************************************)
(* C11: resolved references carry the right binding                        *)
(***************************************************************************)
\* the slot on top of the stack of the active frame of an expression task
TopSlot(state) == Last(Last(state).stack)

\* the part of speech with which the binding id completed: for an assignment
\* of the block what Scope::complete was given, else what the parent holds
BindingPos(id) ==
    IF id \in BlockIds
    THEN history[CHOOSE k \in CompletedAt(id) : TRUE].pos
    ELSE parent_scope[1].complete[id][2]

\* the positions of the history at which task was parked on an identifier
ParkedAt(task) ==
    {i \in 1..Len(history) : history[i].ev = "Pending" /\ history[i].task = task}

\* the atom a task is given for the reference the history records at position i
AtomFor(i) ==
    Some(ExprId(RichIdentifier(history[i].id, history[i].name)), BindingPos(history[i].id))

\* C11: a task that was provided a reference at once (the binding was complete
\* at the lookup) holds, on top of its active frame, the atom of the identifier
\* the lookup chose, under the name it asked for, with the part of speech the
\* binding completed with; a task that was parked and is back in `unblocked`
\* holds the atom of the identifier it was last parked on, with the part of
\* speech that identifier completed with; and every wake-up of a task is by the
\* identifier it was parked on last.
C11_RightBinding ==
    /\ (pc = "run" /\ history # <<>> /\ Last(history).ev = "Complete")
          => /\ Last(history).task = cur[1].id
             /\ TopSlot(cur[1].state) = AtomFor(Len(history))
             /\ IF LocalIds(Last(history).name) # {}
                THEN Means(Last(history).name, cur[1].id, Last(history).id)
                ELSE <<Last(history).id>> = Waiters(parent_scope[1].name_to_ids, Last(history).name)
    /\ \A k \in 1..Len(unblocked) :
          ParkedAt(unblocked[k].id) # {}
              => TopSlot(unblocked[k].state) = AtomFor(Largest(ParkedAt(unblocked[k].id)))
    /\ \A j \in 1..Len(history) :
          history[j].ev = "wake"
              => \E i \in ParkedAt(history[j].task) :
                    /\ i < j
                    /\ history[i].id = history[j].id
                    /\ history[j].pos = BindingPos(history[j].id)
                    /\ \A k \in ParkedAt(history[j].task) : k <= i \/ k > j

\* a = 1; a = a + 1 and a = b; b = 1: a task was provided a verb of the parent
\* at once, and a woken task waits in `unblocked` with the atom it was parked for
C11_Witness ==
    /\ \E k \in 1..Len(unblocked) :
          /\ ParkedAt(unblocked[k].id) # {}
          /\ TopSlot(unblocked[k].state)[1] = "Some"
    /\ \E i \in 1..Len(history) :
          history[i].ev = "Complete" /\ history[i].pos = Verb(Binary)

(***************************************************************************)
(* C12: no lost wake-up                                                    *)
(***************************************************************************)
\* the positions of the history at which the driver popped task
PoppedAt(task) ==
    {i \in 1..Len(history) : history[i].ev = "pop" /\ history[i].task = task}

\* C12: no waiter list is kept under an identifier that is complete; a task
\* that was parked on p is, once p has completed, no longer parked on p and was
\* woken by p before p was recorded; and a woken task is in `unblocked` or has
\* been popped since, so when the loop ends every woken task has run again.
C12_NoLostWakeUp ==
    /\ \A p \in DOMAIN blocked_on_id :
          p \notin DOMAIN complete /\ p \notin DOMAIN parent_scope[1].complete
    /\ \A i \in 1..Len(history) :
          (history[i].ev = "Pending" /\ CompletedAt(history[i].id) # {})
              => /\ ~Parked(history[i].task, history[i].id)
                 /\ \E j \in (i + 1)..Len(history) :
                       /\ history[j].ev = "wake"
                       /\ history[j].task = history[i].task
                       /\ history[j].id = history[i].id
                       /\ \A k \in CompletedAt(history[i].id) : j < k
    /\ \A j \in 1..Len(history) :
          history[j].ev = "wake"
              => \/ Occurrences(unblocked, history[j].task) = 1
                 \/ \E k \in PoppedAt(history[j].task) : k > j

\* a = b; b = 1: the loop has ended and the woken task has been run again
C12_Witness ==
    /\ pc = "loop"
    /\ unblocked = <<>>
    /\ \E j \in 1..Len(history) :
          /\ history[j].ev = "wake"
          /\ \E k \in PoppedAt(history[j].task) : k > j

(***************************************************************************)
(* C13: termination                                                        *)
(***************************************************************************)
\* the number of Identifier terms of a term vector, groups included
RECURSIVE IdentifierCount(_)
IdentifierCount(terms) ==
    IF terms = <<>> THEN 0
    ELSE (IF Head(terms)[1] = "Identifier" THEN 1
          ELSE IF Head(terms)[1] \in {"Parens", "Brackets"} THEN IdentifierCount(Head(terms)[2])
          ELSE 0)
         + IdentifierCount(Tail(terms))

\* the positions of the history at which task was woken
WokenAt(task) ==
    {i \in 1..Len(history) : history[i].ev = "wake" /\ history[i].task = task}

\* a task is woken at most once by each identifier, at most once for each
\* identifier term it holds, and is popped once more than it was woken at most
BoundedResumption ==
    \A t \in BlockIds :
        /\ \A j \in WokenAt(t) : \A k \in WokenAt(t) : history[j].id = history[k].id => j = k
        /\ Cardinality(WokenAt(t)) <= IdentifierCount(block[t - FirstChildId + 1].expression)
        /\ Cardinality(PoppedAt(t)) <= 1 + Cardinality(WokenAt(t))

\* the number of terms of a term vector, a group counting with its contents
RECURSIVE TermTotal(_)
TermTotal(terms) ==
    IF terms = <<>> THEN 0
    ELSE 1 + (IF Head(terms)[1] \in {"Parens", "Brackets"} THEN TermTotal(Head(terms)[2]) ELSE 0)
           + TermTotal(Tail(terms))

\* the terms an expression task has not shifted yet, over all its frames
RECURSIVE Unshifted(_)
Unshifted(call_stack) ==
    IF call_stack = <<>> THEN 0
    ELSE TermTotal(Head(call_stack).input) + Unshifted(Tail(call_stack))

\* the work left in a list of operations held at one place: three for each
\* unshifted term, and `place` for each operation
RECURSIVE WorkIn(_, _)
WorkIn(ops, place) ==
    IF ops = <<>> THEN 0
    ELSE 3 * Unshifted(Head(ops).state) + place + WorkIn(Tail(ops), place)

RECURSIVE WorkInLists(_, _)
WorkInLists(map, keys) ==
    IF keys = {} THEN 0
    ELSE WorkIn(map[CHOOSE k \in keys : TRUE], 3)
         + WorkInLists(map, keys \ {CHOOSE k \in keys : TRUE})

RECURSIVE WorkToBegin(_)
WorkToBegin(todo) ==
    IF todo = <<>> THEN 0
    ELSE 3 * TermTotal(Head(todo).expression) + 3 + WorkToBegin(Tail(todo))

\* a natural number that every step of new and parse makes smaller
Potential ==
    WorkToBegin(assignments)
    + WorkIn(unblocked, 2)
    + WorkIn(cur, 1)
    + WorkInLists(blocked_on_name, DOMAIN blocked_on_name)
    + WorkInLists(blocked_on_id, DOMAIN blocked_on_id)
    + (IF pc = "new" THEN 2 ELSE IF pc = "done" THEN 0 ELSE 1)

\* a step of new or of parse can be taken: a begin or the reverse, a pop, one of
\* the returns, or, for the task the driver runs, the arm of the match that
\* takes the task's answer (every answer but PendingId, which is todo!())
CanStep ==
    \/ pc = "new" /\ ENABLED (Begin \/ NewReverse)
    \/ pc = "loop" /\ unblocked # <<>> /\ ENABLED Pop
    \/ AfterLoop /\ ENABLED (\/ ReturnSubAssignmentFailed \/ ReturnPendingName
                              \/ ReturnPendingId \/ ReturnCyclicAssignments
                              \/ ReturnBlockWithoutResult \/ ReturnCompound)
    \/ pc = "run" /\ \/ Parsed.result[1] \in {"Err", "Complete"}
                     \/ /\ Parsed.result[1] = "PendingName"
                        /\ Looked(Parsed)[1] \in {"Unknown", "Pending", "Failed", "Complete"}

\* C13: BlockParsnip::new followed by BlockParsnip::parse terminates: as long
\* as parse has not returned a step can be taken, and every step lowers a
\* natural number (each run of a task shifts at least one term before it is
\* parked, and a parked task is queued again only by the completion of the
\* identifier it waits for), so parse returns after finitely many steps; a task
\* is queued again at most once for each completed identifier.
C13_Termination ==
    /\ [](pc # "done" => CanStep)
    /\ [](Potential \in Nat /\ BoundedResumption)
    /\ [][Potential' < Potential]_vars

\* _ = b a; b = 1; a = 1 has returned after the first task was run twice
C13_Witness ==
    /\ pc = "done"
    /\ \E t \in BlockIds : Cardinality(PoppedAt(t)) = 2 /\ Cardinality(WokenAt(t)) = 1

(***************************************************************************)
(* C14: determinism and order-independence of the result                   *)
(***************************************************************************)
\* What an assignment comes to when the bindings in `done` (identifier to
\* expression and part of speech) are the complete ones, whenever it is run:
\* the answer of its task, or what it waits for.
RECURSIVE RunTask(_, _, _)
RunParsed(parsed, id, done) ==
    IF parsed.result[1] # "PendingName" THEN parsed.result
    ELSE IF lookup_identifier(ThisScope, parsed.result[2], id) = <<>>
    THEN <<"WaitsName", parsed.result[2]>>
    ELSE IF lookup_identifier(ThisScope, parsed.result[2], id)[1] \in DOMAIN done
    THEN RunTask(provide(parsed.state,
                         RichIdentifier(lookup_identifier(ThisScope, parsed.result[2], id)[1],
                                        parsed.result[2]),
                         done[lookup_identifier(ThisScope, parsed.result[2], id)[1]][2]),
                 id, done)
    ELSE <<"WaitsId", lookup_identifier(ThisScope, parsed.result[2], id)[1]>>

RunTask(state, id, done) == RunParsed(parse(state), id, done)

\* the assignment with identifier id, run from its start
RunFromStart(id, done) ==
    RunTask(ExpressionParsnip(block[id - FirstChildId + 1].expression), id, done)

\* `done` with the assignments in `more`, each with what it completes to
WithCompleted(done, more) ==
    [id \in DOMAIN done \cup more |->
        IF id \in more THEN <<RunFromStart(id, done)[2], RunFromStart(id, done)[3]>>
        ELSE done[id]]

\* the assignments not in `done` that complete once those in `done` have
CompletesNext(done) ==
    {id \in BlockIds \ DOMAIN done : RunFromStart(id, done)[1] = "Complete"}

\* the bindings that complete in the end, whatever the order: the least set
\* closed under "completes once its references have"
RECURSIVE Settle(_)
Settle(done) ==
    IF CompletesNext(done) = {} THEN done
    ELSE Settle(WithCompleted(done, CompletesNext(done)))

\* what the assignments that do not complete come to in the end
Unsettled(done) ==
    {RunFromStart(id, done) : id \in BlockIds \ DOMAIN done}

\* the kind of outcome the block has, read off what its assignments come to
OutcomeOf(ends) ==
    IF \E e \in ends : e[1] = "Err" THEN "SubAssignmentFailed"
    ELSE IF \E e \in ends : e[1] = "WaitsName" THEN "PendingName"
    ELSE IF \E e \in ends : e[1] = "WaitsId" /\ e[2] \notin BlockIds THEN "PendingId"
    ELSE IF ends # {} THEN "CyclicAssignments"
    ELSE IF LocalIds("_") = {} THEN "BlockWithoutResult"
    ELSE "Complete"

\* the Compound of a block all of whose assignments complete
CompoundOf(done) ==
    Complete(Compound([rich \in {RichIdentifier(id, block[id - FirstChildId + 1].name) :
                                    id \in BlockIds \ {Largest(LocalIds("_"))}} |->
                          done[rich.id][1]],
                      done[Largest(LocalIds("_"))][1]),
             done[Largest(LocalIds("_"))][2])

\* the kind of what parse returned
KindOf(value) == IF value[1] = "Err" THEN value[2][1] ELSE value[1]

\* what parse returned is what the block comes to
AgreesWith(done) ==
    /\ KindOf(result[1]) = OutcomeOf(Unsettled(done))
    /\ KindOf(result[1]) = "Complete" => result[1] = CompoundOf(done)

\* C14: in whatever order the driver takes the runnable tasks from `unblocked`,
\* what parse returns is determined by the block and the seeded scope: the kind
\* of outcome is the one the assignments come to when each is run once its
\* references are complete, and a Compound has the bindings, the result
\* expression and the part of speech those runs give.
C14_OrderIndependence ==
    pc = "done" => AgreesWith(Settle(parent_scope[1].complete))

\* _ = b a; b = 1; a = 1 run in another order than the text's: a was popped
\* before the first assignment, and the block completed
C14_Witness ==
    /\ pc = "done"
    /\ KindOf(result[1]) = "Complete"
    /\ Len(block) = MaxAssignments
    /\ \E i \in PoppedAt(FirstChildId + 2) : \A k \in PoppedAt(FirstChildId) : i < k
    /\ WokenAt(FirstChildId) # {}


(***************************************************************************)
(* C15: what a yield does to the input                                     *)
(***************************************************************************)
\* the Identifier terms the frames of a call stack still hold in their inputs
RECURSIVE RemainingIdentifiers(_)
RemainingIdentifiers(call_stack) ==
    IF call_stack = <<>> THEN 0
    ELSE IdentifierCount(Head(call_stack).input) + RemainingIdentifiers(Tail(call_stack))

\* the calls of parse so far that returned PendingName
Yields == {i \in 1..Len(history) : history[i].ev \in {"parse", "again"} /\ history[i].name # ""}

\* C15 as stated: when parse has returned PendingName(name) the Identifier term
\* is still the next term of the active frame's input, and parse called again
\* without a provide returns the same PendingName(name).
C15_AsStated ==
    pc = "asked" =>
        /\ Last(cur[1].state).input # <<>>
        /\ Last(Last(cur[1].state).input) = Identifier(result[1][2])
        /\ parse(cur[1].state).result = result[1]

\* C15 amended: every call of parse that returns PendingName has consumed the
\* Identifier term it asks for, also a call that follows no provide: the
\* Identifier terms left in the frames' inputs are those of the expression
\* less one for each PendingName returned, so a call that follows no provide
\* asks for the next identifier to the left or ends the parse.
C15_YieldConsumes ==
    /\ [](pc \in {"asked", "begun"} =>
             RemainingIdentifiers(cur[1].state) + Cardinality(Yields)
                 = IdentifierCount(block[1].expression))
    /\ [][pc = "asked" /\ pc' = "asked" =>
              RemainingIdentifiers(cur[1].state') = RemainingIdentifiers(cur[1].state) - 1]_vars

\* parse called twice in a row has asked for two different names, and the
\* second call's answer took the place of the first
C15_Witness ==
    /\ pc = "asked"
    /\ Len(history) >= 2
    /\ history[Len(history)].ev = "again"
    /\ history[Len(history) - 1].ev = "parse"
    /\ history[Len(history) - 1].name # history[Len(history)].name
    /\ RemainingIdentifiers(cur[1].state) = IdentifierCount(block[1].expression) - 2


(***************************************************************************)
(* C16: the resumption protocol                                            *)
(***************************************************************************)
\* the identifiers of a term vector in source order, each with the depth of
\* the frame that reads it (1 for the expression itself, one more per group)
RECURSIVE SourceIdentifiers(_, _)
SourceIdentifiers(terms, depth) ==
    IF terms = <<>> THEN <<>>
    ELSE (IF Head(terms)[1] = "Identifier" THEN <<<<Head(terms)[2], depth>>>>
          ELSE IF Head(terms)[1] \in {"Parens", "Brackets"}
          THEN SourceIdentifiers(Head(terms)[2], depth + 1)
          ELSE <<>>)
         \o SourceIdentifiers(Tail(terms), depth)

IsYield(event) == event.ev \in {"parse", "again"} /\ event.name # ""

NameAndDepth(event) == <<event.name, event.id>>

\* the names parse has asked for, in the order of the calls, each with the
\* depth of the call stack at the call
AskedFor ==
    LET yields == SelectSeq(history, IsYield)
    IN  [i \in 1..Len(yields) |-> NameAndDepth(yields[i])]

IsPrefix(short, long) ==
    Len(short) <= Len(long) /\ SubSeq(long, 1, Len(short)) = short

RightToLeft == Reverse(SourceIdentifiers(block[1].expression, 1))

\* C16: driven by alternating parse and provide, the task asks for the
\* identifiers of the expression from right to left, those of a group in the
\* frame of the group, each occurrence once; a provided atom is the top of
\* the stack of the frame that asked; and a parse that completes has asked
\* for every identifier, so after the last one parse returns Complete or an error.
C16_ResumptionProtocol ==
    /\ IsPrefix(AskedFor, RightToLeft)
    /\ pc = "asked" =>
           /\ result[1][1] = "PendingName"
           /\ AskedFor[Len(AskedFor)] = <<result[1][2], Len(cur[1].state)>>
    /\ pc = "begun" /\ history # <<>> =>
           /\ Last(history).ev = "provide"
           /\ Last(history).name = AskedFor[Len(AskedFor)][1]
           /\ Len(cur[1].state) = AskedFor[Len(AskedFor)][2]
           /\ TopSlot(cur[1].state)
                  = Some(ExprId(TestId(Last(history).name)), PosOfName(Last(history).name))
    /\ pc = "begun" /\ AskedFor = RightToLeft =>
           parse(cur[1].state).result[1] \in {"Complete", "Err"}
    /\ pc = "finished" =>
           /\ result[1][1] \in {"Complete", "Err"}
           /\ result[1][1] = "Complete" => AskedFor = RightToLeft

\* a parse has completed after asking for three identifiers, one of them
\* inside a group and one to the left of the group
C16_Witness ==
    /\ pc = "finished"
    /\ result[1][1] = "Complete"
    /\ Len(AskedFor) = 3
    /\ AskedFor[2][2] = 2
    /\ AskedFor[3][2] = 1
    /\ AskedFor[1][1] # AskedFor[3][1]


(***************************************************************************)
(* C17: adverb eagerness                                                   *)
(***************************************************************************)
\* the stack of the frame parse works on
ActiveStack == Last(cur[1].state).stack

\* the verb an adverb with unary input makes of the verb below it
Captured(adverb, verb) == Some(unary(adverb[2], verb[2]), Verb(adverb[3][3]))

\* an adverb with unary input lies directly above a verb
AdverbOverVerb(stack) ==
    \E i \in 2..Len(stack) : pos_a1(stack[i]) /\ pos_v(stack[i - 1])

\* what parse_to_completion gives for the terms of the expression
Parses(terms, expr, pos) ==
    pc = "finished" /\ block[1].expression = terms => result[1] = Complete(expr, pos)

\* C17: when an adverb with unary input has been pushed directly above a verb,
\* the first arm of reduce_stack fires, without lookahead, and puts in their
\* place one verb of the adverb's output arity that stays the top of the stack
\* until the next shift; no stack is left with such an adverb over a verb; and
\* `fold +` is a unary verb, `fold + 1` is (fold +) applied to 1, `1 flip + 2`
\* is (flip +) applied to 1 and 2.
C17_AdverbEagerness ==
    /\ pc = "begun" /\ pos_a1(Top(ActiveStack, 1)) /\ pos_v(Top(ActiveStack, 2)) =>
           /\ MatchingRule(ActiveStack) = 1
           /\ ApplyRule(1, ActiveStack)
                  = Append(Below(ActiveStack, 2),
                           Captured(Top(ActiveStack, 1), Top(ActiveStack, 2)))
           /\ Top(reduce_stack(ActiveStack), 1)
                  = Captured(Top(ActiveStack, 1), Top(ActiveStack, 2))
    /\ pc = "asked" =>
           \A i \in 1..Len(cur[1].state) : ~AdverbOverVerb(cur[1].state[i].stack)
    /\ \A verb \in {"+", "neg"} :
           /\ Parses(<<Identifier("fold"), Identifier(verb)>>,
                     unary(ExprId(TestId("fold")), ExprId(TestId(verb))), Verb(Unary))
           /\ Parses(<<Identifier("flip"), Identifier(verb)>>,
                     unary(ExprId(TestId("flip")), ExprId(TestId(verb))), Verb(Binary))
           /\ Parses(<<Identifier("fold"), Identifier(verb), NumericLiteral(1)>>,
                     unary(unary(ExprId(TestId("fold")), ExprId(TestId(verb))), num(1)), Noun)
           /\ Parses(<<NumericLiteral(1), Identifier("flip"), Identifier(verb), NumericLiteral(2)>>,
                     binary(unary(ExprId(TestId("flip")), ExprId(TestId(verb))), num(1), num(2)),
                     Noun)

\* `fold` has just been provided above the unary verb neg, which has a noun
\* on its right that it was not applied to
C17_Witness ==
    /\ pc = "begun"
    /\ pos_a1(Top(ActiveStack, 1))
    /\ pos_v1(Top(ActiveStack, 2))
    /\ pos_n(Top(ActiveStack, 3))


(***************************************************************************)
(* C18: application from right to left, without precedence                 *)
(***************************************************************************)
\* the terms of the expression being parsed
Source == block[1].expression

IsVerbTerm(term, arity) ==
    term[1] = "Identifier" /\ PosOfName(term[2]) = Verb(arity)

\* what the terms to the right of position i parse to on their own
RightOf(terms, i) ==
    parse_to_completion(ExpressionParsnip(SubSeq(terms, i + 1, Len(terms))))

\* the terms left of position i are numeric literals, at least one
LiteralsLeftOf(terms, i) ==
    i > 1 /\ \A j \in 1..(i - 1) : terms[j][1] = "NumericLiteral"

\* the noun the literals left of position i stand for: the literal, or the
\* tuple of them (a tuple holds its items from right to left)
LeftOperand(terms, i) ==
    IF i = 2 THEN num(terms[1][2])
    ELSE Tuple([j \in 1..(i - 1) |-> num(terms[i - j][2])])

\* C18: a unary verb at the left end is applied to the noun that everything
\* to its right reduces to; a binary verb with only nouns to its left is
\* applied to that noun (the tuple of them if there are several) and to the
\* noun that everything to its right reduces to, whatever verbs stand there;
\* `neg 1 + 2` is neg of (+ 1 2) and `1 2 + 1 2` is + of two tuples.
C18_RightToLeft ==
    pc = "finished" =>
        /\ Len(Source) >= 2 /\ IsVerbTerm(Source[1], Unary)
               /\ RightOf(Source, 1)[1] = "Complete" /\ RightOf(Source, 1)[3] = Noun
           => result[1] = Complete(unary(ExprId(TestId(Source[1][2])), RightOf(Source, 1)[2]), Noun)
        /\ \A i \in 2..(Len(Source) - 1) :
               IsVerbTerm(Source[i], Binary) /\ LiteralsLeftOf(Source, i)
                   /\ RightOf(Source, i)[1] = "Complete" /\ RightOf(Source, i)[3] = Noun
               => result[1] = Complete(binary(ExprId(TestId(Source[i][2])),
                                              LeftOperand(Source, i), RightOf(Source, i)[2]), Noun)
        /\ Source = <<Identifier("neg"), NumericLiteral(1), Identifier("+"), NumericLiteral(2)>>
           => result[1] = Complete(unary(ExprId(TestId("neg")),
                                         binary(ExprId(TestId("+")), num(1), num(2))), Noun)
        /\ Source = <<NumericLiteral(1), NumericLiteral(2), Identifier("+"),
                      NumericLiteral(1), NumericLiteral(2)>>
           => result[1] = Complete(binary(ExprId(TestId("+")), Tuple(<<num(2), num(1)>>),
                                          Tuple(<<num(2), num(1)>>)), Noun)

\* `neg 1 + 2` has been parsed: neg was applied to the whole of `1 + 2`
C18_Witness ==
    /\ pc = "finished"
    /\ Source = <<Identifier("neg"), NumericLiteral(1), Identifier("+"), NumericLiteral(2)>>
    /\ result[1][1] = "Complete"
    /\ result[1][2][3][1] = "BinaryApplication"


(***************************************************************************)
(* C19: sections and compositions                                          *)
(***************************************************************************)
\* the item a literal or an identifier puts on the stack
AtomSlot(term) ==
    IF term[1] = "NumericLiteral" THEN Some(num(term[2]), Noun)
    ELSE IF term[1] = "Identifier" THEN Some(ExprId(TestId(term[2])), PosOfName(term[2]))
    ELSE None

\* the implicit application two adjacent items make, left the item that is
\* on the left in the source; None when the pair is none of the five
Implied(builtin, f, x, pos) == Some(binary(Implicit(builtin), f[2], x[2]), pos)

PairOf(left, right) ==
    IF pos_v2(left) /\ pos_n(right) THEN Implied("PartialApplicationRight", left, right, Verb(Unary))
    ELSE IF pos_n(left) /\ pos_v2(right) THEN Implied("PartialApplicationLeft", right, left, Verb(Unary))
    ELSE IF pos_v1(left) /\ pos_v1(right) THEN Implied("Compose", left, right, Verb(Unary))
    ELSE IF pos_v2(left) /\ pos_v1(right) THEN Implied("ComposeRight", left, right, Verb(Binary))
    ELSE IF pos_v1(left) /\ pos_v2(right) THEN Implied("ComposeLeft", right, left, Verb(Binary))
    ELSE None

IsResult(slot) == slot # None /\ result[1] = Complete(slot[2], slot[3])

\* C19: a frame of two items that cannot be applied to each other parses to
\* the implicit application of the claim (right section, left section,
\* Compose, ComposeRight, ComposeLeft), tagged unary or binary verb as stated;
\* with a verb to their left the two make the same application, which then
\* pairs with that verb; and a parenthesised unary section followed by a noun
\* is applied to the noun and gives a Noun.
C19_Sections ==
    pc = "finished" =>
        /\ Len(Source) = 2 /\ PairOf(AtomSlot(Source[1]), AtomSlot(Source[2])) # None
           => IsResult(PairOf(AtomSlot(Source[1]), AtomSlot(Source[2])))
        /\ Len(Source) = 3 /\ pos_v(AtomSlot(Source[1]))
               /\ PairOf(AtomSlot(Source[2]), AtomSlot(Source[3])) # None
               /\ PairOf(AtomSlot(Source[1]),
                         PairOf(AtomSlot(Source[2]), AtomSlot(Source[3]))) # None
           => IsResult(PairOf(AtomSlot(Source[1]),
                              PairOf(AtomSlot(Source[2]), AtomSlot(Source[3]))))
        /\ Len(Source) = 2 /\ Source[1][1] = "Parens" /\ Len(Source[1][2]) = 2
               /\ pos_v1(PairOf(AtomSlot(Source[1][2][1]), AtomSlot(Source[1][2][2])))
               /\ pos_n(AtomSlot(Source[2]))
           => result[1] = Complete(
                  unary(Parens(PairOf(AtomSlot(Source[1][2][1]), AtomSlot(Source[1][2][2]))[2]),
                        AtomSlot(Source[2])[2]),
                  Noun)

\* `(+ 1) 2` has been parsed to a Noun
C19_Witness ==
    /\ pc = "finished"
    /\ Source = <<TermParens(<<Identifier("+"), NumericLiteral(1)>>), NumericLiteral(2)>>
    /\ result[1][1] = "Complete"
    /\ result[1][3] = Noun


(***************************************************************************)
(* C20: tuple flattening                                                   *)
(***************************************************************************)
\* some Tuple inside expr has a Tuple among its items
RECURSIVE HasNestedTuple(_)
HasNestedTuple(expr) ==
    CASE expr[1] \in {"Tuple", "Brackets"} ->
            \/ expr[1] = "Tuple" /\ \E j \in 1..Len(expr[2]) : expr[2][j][1] = "Tuple"
            \/ \E j \in 1..Len(expr[2]) : HasNestedTuple(expr[2][j])
      [] expr[1] = "UnaryApplication" -> HasNestedTuple(expr[2]) \/ HasNestedTuple(expr[3])
      [] expr[1] = "BinaryApplication" ->
            HasNestedTuple(expr[2]) \/ HasNestedTuple(expr[3]) \/ HasNestedTuple(expr[4])
      [] expr[1] = "Parens" -> HasNestedTuple(expr[2])
      [] OTHER -> FALSE

IsLiteralRun(terms) ==
    Len(terms) >= 2 /\ \A j \in 1..Len(terms) : terms[j][1] = "NumericLiteral"

\* expr is one Tuple of the literals of terms: as many items, each a number,
\* every number as often as it stands in terms
IsFlatTupleOf(expr, terms) ==
    /\ expr[1] = "Tuple"
    /\ Len(expr[2]) = Len(terms)
    /\ \A j \in 1..Len(expr[2]) :
           /\ expr[2][j][1] = "Number"
           /\ Cardinality({i \in 1..Len(expr[2]) : expr[2][i] = expr[2][j]})
                  = Cardinality({i \in 1..Len(terms) : terms[i] = NumericLiteral(expr[2][j][2])})

\* C20: an input that is a run of k >= 2 literals parses to one Tuple tagged
\* Noun with exactly k items, the literals; so does such a run as the right
\* operand of a binary verb or the operand of a unary verb; and no Tuple of
\* any stack or result has a Tuple among its items (a tuple out of a group
\* is an item wrapped in its Parens).
C20_TupleFlattening ==
    /\ \A i \in 1..Len(cur[1].state) :
           \A j \in 1..Len(cur[1].state[i].stack) :
              cur[1].state[i].stack[j] # None => ~HasNestedTuple(cur[1].state[i].stack[j][2])
    /\ pc = "finished" /\ result[1][1] = "Complete" => ~HasNestedTuple(result[1][2])
    /\ pc = "finished" /\ IsLiteralRun(Source) =>
           /\ result[1][1] = "Complete"
           /\ result[1][3] = Noun
           /\ IsFlatTupleOf(result[1][2], Source)
    /\ pc = "finished" /\ Len(Source) >= 3 /\ IsVerbTerm(Source[1], Unary)
           /\ IsLiteralRun(Tail(Source)) =>
           /\ result[1][1] = "Complete"
           /\ result[1][3] = Noun
           /\ result[1][2][1] = "UnaryApplication"
           /\ IsFlatTupleOf(result[1][2][3], Tail(Source))
    /\ pc = "finished" /\ Len(Source) >= 4 /\ Source[1][1] = "NumericLiteral"
           /\ IsVerbTerm(Source[2], Binary) /\ IsLiteralRun(Tail(Tail(Source))) =>
           /\ result[1][1] = "Complete"
           /\ result[1][3] = Noun
           /\ result[1][2][1] = "BinaryApplication"
           /\ IsFlatTupleOf(result[1][2][4], Tail(Tail(Source)))

\* `1 2 3 4 5` has been parsed to a Tuple of five items
C20_Witness ==
    /\ pc = "finished"
    /\ Len(Source) = 5
    /\ IsLiteralRun(Source)
    /\ result[1][1] = "Complete"
    /\ Len(result[1][2][2]) = 5


(***************************************************************************)
(* C21: the order of the items of a merged Tuple                           *)
(***************************************************************************)
\* the literals of terms as numbers, in source order and from right to left
InSourceOrder(terms) == [j \in 1..Len(terms) |-> num(terms[j][2])]
FromTheRight(terms) == [j \in 1..Len(terms) |-> num(terms[Len(terms) + 1 - j][2])]

\* arm 5 is about to merge the two nouns below the top of the active stack
MergesNow == pc = "begun" /\ MatchingRule(ActiveStack) = 5

\* the slot arm 5 leaves below the top
Merged == Top(ApplyRule(5, ActiveStack), 2)

\* C21 as stated: the Tuple of a run of adjacent nouns holds them in the
\* order of the source text; a Tuple on the left is extended by the noun on
\* its right, and a noun does not enter a Tuple standing on its right.
C21_AsStated ==
    /\ pc = "finished" /\ IsLiteralRun(Source) =>
           result[1] = Complete(Tuple(InSourceOrder(Source)), Noun)
    /\ MergesNow /\ Top(ActiveStack, 3)[2][1] = "Tuple" =>
           Merged = Some(Tuple(<<Top(ActiveStack, 2)[2], Top(ActiveStack, 3)[2]>>), Noun)

\* C21 amended: the Tuple of a run of adjacent nouns holds them from right
\* to left (the rightmost noun of the source is the first item); the merge
\* looks at the noun on the right: if that is a Tuple the noun on its left
\* is pushed after its items, otherwise the pair (right, left) is made, also
\* when the item on the left holds a Tuple, which it can only hold in Parens.
C21_MergeOrder ==
    /\ pc = "finished" /\ IsLiteralRun(Source) =>
           result[1] = Complete(Tuple(FromTheRight(Source)), Noun)
    /\ MergesNow =>
           /\ Top(ActiveStack, 2)[2][1] # "Tuple"
           /\ Merged = Some(Tuple(IF Top(ActiveStack, 3)[2][1] = "Tuple"
                                  THEN Append(Top(ActiveStack, 3)[2][2], Top(ActiveStack, 2)[2])
                                  ELSE <<Top(ActiveStack, 3)[2], Top(ActiveStack, 2)[2]>>), Noun)
    /\ pc = "finished" /\ Len(Source) = 2 /\ Source[1][1] = "Parens"
           /\ IsLiteralRun(Source[1][2]) /\ Source[2][1] = "NumericLiteral" =>
           result[1] = Complete(Tuple(<<num(Source[2][2]),
                                        Parens(Tuple(FromTheRight(Source[1][2])))>>), Noun)
    /\ pc = "finished" /\ Len(Source) = 2 /\ Source[2][1] = "Parens"
           /\ IsLiteralRun(Source[2][2]) /\ Source[1][1] = "NumericLiteral" =>
           result[1] = Complete(Tuple(<<Parens(Tuple(FromTheRight(Source[2][2]))),
                                        num(Source[1][2])>>), Noun)

\* a noun is about to be pushed into the Tuple standing on its right, with
\* a verb already provided on the left
C21_Witness ==
    /\ MergesNow
    /\ Top(ActiveStack, 3)[2][1] = "Tuple"
    /\ Top(ActiveStack, 2)[2] # Top(ActiveStack, 3)[2][2][1]
    /\ pos_v(Top(ActiveStack, 1))


(***************************************************************************)
(* C22: conjunctions                                                       *)
(***************************************************************************)
IsOperand(term) == pos_vn(AtomSlot(term))

IsConjunction(term) == pos_a2(AtomSlot(term))

IsUnaryAdverb(term) == pos_a1(AtomSlot(term))

\* binary(adverb, left operand, right operand), the operands given as slots
Conjoined(adverb, left, right) ==
    Some(binary(adverb[2], left[2], right[2]), Verb(adverb[3][3]))

\* C22: when an adverb with binary input lies between two operands (verbs or
\* nouns) and the verb on the left is not about to be taken by an adverb
\* with unary input, arm 3 fires and puts binary(adverb, left, right), a verb
\* of the adverb's output arity, in their place below the kept top; `A . B`
\* parses to that verb; a verb with its adverb on either side is the operand
\* (`fold A . B`, `A . fold B`); `A . B . C` is `. A (. B C)`; and `x + . * y`
\* is (. + *) applied to x and y.
C22_Conjunctions ==
    /\ pc = "begun" /\ pos_vn(Top(ActiveStack, 2)) /\ pos_a2(Top(ActiveStack, 3))
           /\ pos_vn(Top(ActiveStack, 4))
           /\ ~(pos_a1(Top(ActiveStack, 1)) /\ pos_v(Top(ActiveStack, 2))) =>
           /\ MatchingRule(ActiveStack) = 3
           /\ ApplyRule(3, ActiveStack)
                  = Below(ActiveStack, 4)
                    \o <<Conjoined(Top(ActiveStack, 3), Top(ActiveStack, 2), Top(ActiveStack, 4)),
                         Top(ActiveStack, 1)>>
    /\ pc = "finished" /\ Len(Source) = 3 /\ IsOperand(Source[1])
           /\ IsConjunction(Source[2]) /\ IsOperand(Source[3]) =>
           IsResult(Conjoined(AtomSlot(Source[2]), AtomSlot(Source[1]), AtomSlot(Source[3])))
    /\ pc = "finished" /\ Len(Source) = 4 /\ IsUnaryAdverb(Source[1])
           /\ pos_v(AtomSlot(Source[2])) /\ IsConjunction(Source[3]) /\ IsOperand(Source[4]) =>
           IsResult(Conjoined(AtomSlot(Source[3]),
                              Captured(AtomSlot(Source[1]), AtomSlot(Source[2])),
                              AtomSlot(Source[4])))
    /\ pc = "finished" /\ Len(Source) = 4 /\ IsOperand(Source[1])
           /\ IsConjunction(Source[2]) /\ IsUnaryAdverb(Source[3]) /\ pos_v(AtomSlot(Source[4])) =>
           IsResult(Conjoined(AtomSlot(Source[2]), AtomSlot(Source[1]),
                              Captured(AtomSlot(Source[3]), AtomSlot(Source[4]))))
    /\ pc = "finished" /\ Len(Source) = 5 /\ IsOperand(Source[1]) /\ IsConjunction(Source[2])
           /\ IsOperand(Source[3]) /\ IsConjunction(Source[4]) /\ IsOperand(Source[5]) =>
           IsResult(Conjoined(AtomSlot(Source[2]), AtomSlot(Source[1]),
                              Conjoined(AtomSlot(Source[4]), AtomSlot(Source[3]),
                                        AtomSlot(Source[5]))))
    /\ pc = "finished"
           /\ Source = <<Identifier("x"), Identifier("+"), Identifier("."), Identifier("*"),
                         Identifier("y")>> =>
           result[1] = Complete(binary(binary(ExprId(TestId(".")), ExprId(TestId("+")),
                                              ExprId(TestId("*"))),
                                       ExprId(TestId("x")), ExprId(TestId("y"))), Noun)

\* the second conjunction of a chain is about to take the first one, already
\* reduced, as its right operand
C22_Witness ==
    /\ pc = "begun"
    /\ MatchingRule(ActiveStack) = 3
    /\ Top(ActiveStack, 4)[2][1] = "BinaryApplication"
    /\ Top(ActiveStack, 4)[2][2] = Top(ActiveStack, 3)[2]


(***************************************************************************)
(* C23: closing a frame                                                    *)
(***************************************************************************)
\* parse is about to be called on a frame that has no input left
AtFrameEnd == pc = "begun" /\ Last(cur[1].state).input = <<>>

\* the entries of the active stack when the frame closes: reduced, the end
\* sentinel pushed, reduced again, the sentinels dropped
Residue == SelectSeq(reduce_stack(Append(reduce_stack(ActiveStack), None)), IsSome)

\* the (expression, part of speech) pairs of a sequence of slots
Entries(slots) == [i \in 1..Len(slots) |-> <<slots[i][2], slots[i][3]>>]

\* the atoms of terms as stack slots, the rightmost term first
ShiftedAtoms(terms) == [i \in 1..Len(terms) |-> AtomSlot(terms[Len(terms) + 1 - i])]

\* two atoms that no arm combines: two binary verbs, two adverbs, or a
\* conjunction with an operand on one side only
Irreducible(left, right) ==
    \/ pos_v2(left) /\ pos_v2(right)
    \/ (pos_a1(left) \/ pos_a2(left)) /\ (pos_a1(right) \/ pos_a2(right))
    \/ pos_a2(left) /\ pos_vn(right)
    \/ pos_vn(left) /\ pos_a2(right)

IsGroup(term) == term[1] \in {"Parens", "Brackets"}

\* C23: a frame that closes with one entry gives that entry as its result
\* (Complete for the outermost frame, pushed on the parent through the
\* finisher for a group); with two or more entries the whole task fails with
\* DidNotFullyReduce of exactly those entries in stack order, also when the
\* frame is a group; with none it gives the empty Tuple tagged Noun.  Two
\* binary verbs, two adverbs and a conjunction with one operand fail so.
C23_FrameClose ==
    /\ AtFrameEnd /\ Len(Residue) >= 2 =>
           parse(cur[1].state).result = Err(DidNotFullyReduce(Entries(Residue)))
    /\ AtFrameEnd /\ Len(Residue) = 1 /\ Len(cur[1].state) = 1 =>
           parse(cur[1].state).result = Complete(Residue[1][2], Residue[1][3])
    /\ AtFrameEnd /\ Len(Residue) = 1 /\ Len(cur[1].state) > 1
           /\ Last(cur[1].state).finish = "wrap_parens" =>
           parse(cur[1].state)
               = parse(PushTop(Front(cur[1].state), Some(Parens(Residue[1][2]), Residue[1][3])))
    /\ AtFrameEnd /\ Len(Residue) = 0 =>
           parse(cur[1].state).result = Complete(Tuple(<<>>), Noun)
    /\ pc = "finished" /\ Source = <<TermParens(<<>>)>> =>
           result[1] = Complete(Parens(Tuple(<<>>)), Noun)
    /\ pc = "finished" /\ Len(Source) = 2
           /\ Irreducible(AtomSlot(Source[1]), AtomSlot(Source[2])) =>
           result[1] = Err(DidNotFullyReduce(Entries(ShiftedAtoms(Source))))
    /\ pc = "finished" =>
           \A i \in 1..Len(Source) :
              IsGroup(Source[i]) /\ Len(Source[i][2]) = 2
                  /\ Irreducible(AtomSlot(Source[i][2][1]), AtomSlot(Source[i][2][2])) =>
              result[1] = Err(DidNotFullyReduce(Entries(ShiftedAtoms(Source[i][2]))))
    /\ pc = "finished" /\ result[1][1] = "Err" /\ result[1][2][1] = "DidNotFullyReduce" =>
           Len(result[1][2][2]) >= 2

\* a group closed with two entries and the whole task failed, the term to
\* the left of the group never read
C23_Witness ==
    /\ pc = "finished"
    /\ Len(Source) = 2
    /\ Source[1][1] = "Identifier"
    /\ IsGroup(Source[2])
    /\ Len(Source[2][2]) = 2
    /\ result[1] = Err(DidNotFullyReduce(Entries(ShiftedAtoms(Source[2][2]))))
    /\ Len(AskedFor) = 2


(***************************************************************************)
(* C24: array literals                                                     *)
(***************************************************************************)
\* what the interior of a group parses to on its own
Interior(group) == parse_to_completion(ExpressionParsnip(group[2]))

\* the array literal of a noun: the items of a Tuple, or the one expression
ArrayOf(expr) == Brackets(IF expr[1] = "Tuple" THEN expr[2] ELSE <<expr>>)

IsBrackets(term) == term[1] = "Brackets"

\* C24: a bracket group whose interior is a Noun gives Brackets of the items
\* of the interior's Tuple, or of the one expression, tagged Noun (a verb on
\* its left is applied to it); an empty interior gives Brackets of nothing;
\* an interior that is a verb or an adverb ends the whole task with
\* ArrayLiteralNotNoun, wherever the group stands.
C24_ArrayLiterals ==
    pc = "finished" =>
        /\ Len(Source) = 1 /\ IsBrackets(Source[1]) /\ Interior(Source[1])[1] = "Complete"
               /\ Interior(Source[1])[3] = Noun =>
               result[1] = Complete(ArrayOf(Interior(Source[1])[2]), Noun)
        /\ Source = <<TermBrackets(<<>>)>> => result[1] = Complete(Brackets(<<>>), Noun)
        /\ Len(Source) = 2 /\ IsVerbTerm(Source[1], Unary) /\ IsBrackets(Source[2])
               /\ Interior(Source[2])[1] = "Complete" /\ Interior(Source[2])[3] = Noun =>
               result[1] = Complete(unary(ExprId(TestId(Source[1][2])),
                                          ArrayOf(Interior(Source[2])[2])), Noun)
        /\ \A i \in 1..Len(Source) :
               IsBrackets(Source[i]) /\ Interior(Source[i])[1] = "Complete"
                   /\ Interior(Source[i])[3] # Noun =>
               result[1] = Err(ArrayLiteralNotNoun)

\* `A [+ 1]`: the interior is a unary verb, the task has failed and A was
\* never asked for
C24_Witness ==
    /\ pc = "finished"
    /\ Len(Source) = 2
    /\ Source[1][1] = "Identifier"
    /\ IsBrackets(Source[2])
    /\ Interior(Source[2])[1] = "Complete"
    /\ Interior(Source[2])[3] = Verb(Unary)
    /\ Len(Source[2][2]) = 2
    /\ result[1] = Err(ArrayLiteralNotNoun)
    /\ Len(AskedFor) = 1


(***************************************************************************)
(* C25: a failure stays with the assignment that failed                    *)
(***************************************************************************)
\* the positions of the history with an event of kind ev for task
EventsOf(ev, task) == {i \in 1..Len(history) : history[i].ev = ev /\ history[i].task = task}

\* every name the assignment mentions resolves, for it, to a completed binding
AllReferencesComplete(id) ==
    \A name \in NamesOf(id) : lookup(ThisScope, name, id)[1] = "Complete"

\* the step records a failure
FailureStep == failed' # failed

\* C25: a step that records a failure leaves `complete`, `unblocked`,
\* blocked_on_name and every waiter list but that of the failed identifier
\* as they were, removes that list, and leaves the driver in its loop; the
\* driver returns only when `unblocked` is empty, after every assignment was
\* taken from it at least once; and when the loop ends every assignment whose
\* names all resolve to completed bindings is complete, unless its own
\* expression is in error.
C25_FailureIsolation ==
    /\ [][FailureStep =>
              /\ pc = "run" /\ pc' = "loop"
              /\ complete' = complete
              /\ unblocked' = unblocked
              /\ blocked_on_name' = blocked_on_name
              /\ cur[1].id \notin DOMAIN blocked_on_id'
              /\ \A k \in (DOMAIN blocked_on_id \cup DOMAIN blocked_on_id') \ {cur[1].id} :
                     Waiters(blocked_on_id', k) = Waiters(blocked_on_id, k)
              /\ DOMAIN failed' = DOMAIN failed \cup {cur[1].id}
                                      \cup OpIds(Waiters(blocked_on_id, cur[1].id))
              /\ \A k \in DOMAIN failed : failed'[k] = failed[k]]_vars
    /\ [][pc' = "done" => unblocked = <<>> /\ pc = "loop"]_vars
    /\ [](pc # "panic")
    /\ [](AfterLoop =>
             \A id \in BlockIds :
                /\ EventsOf("pop", id) # {}
                /\ AllReferencesComplete(id) =>
                       \/ id \in DOMAIN complete
                       \/ id \in DOMAIN failed /\ failed[id][1] # "BadReference")

\* the loop has ended; an assignment failed with an error of its own and a
\* later one, which mentions names, was run after that and completed
C25_Witness ==
    /\ AfterLoop
    /\ \E bad \in DOMAIN failed, good \in DOMAIN complete :
           /\ bad < good
           /\ failed[bad][1] = "ArrayLiteralNotNoun"
           /\ \E i \in EventsOf("failed", bad), j \in EventsOf("pop", good) : i < j
           /\ NamesOf(good) # {}


(***************************************************************************)
(* C26: the operand order of the implicit applications                     *)
(***************************************************************************)
\* the two slots an implicit arm combines, named by their place in the source
LeftItem == Top(ActiveStack, 2)
RightItem == Top(ActiveStack, 3)

\* the arm that is about to fire, and the slot it leaves below the top
ArmNow == IF pc = "begun" THEN MatchingRule(ActiveStack) ELSE 0
ArmSlot == Top(ApplyRule(ArmNow, ActiveStack), 2)

\* a two-term input of the given parts of speech has been parsed
ParsedPair(left, right) ==
    /\ pc = "finished"
    /\ Len(Source) = 2
    /\ AtomSlot(Source[1]) # None /\ AtomSlot(Source[1])[3] = left
    /\ AtomSlot(Source[2]) # None /\ AtomSlot(Source[2])[3] = right

\* C26 as stated: the right section is binary(Implicit, verb, noun), the left
\* section binary(Implicit, noun, verb), Compose binary(Implicit, left verb,
\* right verb), ComposeRight binary(Implicit, binary verb, unary verb) and
\* ComposeLeft binary(Implicit, unary verb, binary verb).
C26_AsStated ==
    /\ ParsedPair(Verb(Binary), Noun) =>
           IsResult(Implied("PartialApplicationRight", AtomSlot(Source[1]), AtomSlot(Source[2]),
                            Verb(Unary)))
    /\ ParsedPair(Noun, Verb(Binary)) =>
           IsResult(Implied("PartialApplicationLeft", AtomSlot(Source[1]), AtomSlot(Source[2]),
                            Verb(Unary)))
    /\ ParsedPair(Verb(Unary), Verb(Unary)) =>
           IsResult(Implied("Compose", AtomSlot(Source[1]), AtomSlot(Source[2]), Verb(Unary)))
    /\ ParsedPair(Verb(Binary), Verb(Unary)) =>
           IsResult(Implied("ComposeRight", AtomSlot(Source[1]), AtomSlot(Source[2]),
                            Verb(Binary)))
    /\ ParsedPair(Verb(Unary), Verb(Binary)) =>
           IsResult(Implied("ComposeLeft", AtomSlot(Source[1]), AtomSlot(Source[2]),
                            Verb(Binary)))

\* C26 amended: in both sections the binary verb comes first and the noun
\* second; Compose takes the left verb, then the right verb; ComposeRight and
\* ComposeLeft both take the binary verb first and the unary verb second.
C26_OperandOrder ==
    /\ ArmNow = 7 => ArmSlot = Implied("PartialApplicationRight", LeftItem, RightItem, Verb(Unary))
    /\ ArmNow = 8 => ArmSlot = Implied("PartialApplicationLeft", RightItem, LeftItem, Verb(Unary))
    /\ ArmNow = 6 => ArmSlot = Implied("Compose", LeftItem, RightItem, Verb(Unary))
    /\ ArmNow = 9 => ArmSlot = Implied("ComposeRight", LeftItem, RightItem, Verb(Binary))
    /\ ArmNow = 10 => ArmSlot = Implied("ComposeLeft", RightItem, LeftItem, Verb(Binary))
    /\ ArmNow = 7 => pos_v2(LeftItem) /\ pos_n(RightItem)
    /\ ArmNow = 8 => pos_v2(RightItem) /\ pos_n(LeftItem)
    /\ ArmNow = 9 => pos_v2(LeftItem) /\ pos_v1(RightItem)
    /\ ArmNow = 10 => pos_v2(RightItem) /\ pos_v1(LeftItem)
    /\ ParsedPair(Verb(Binary), Noun) =>
           IsResult(Implied("PartialApplicationRight", AtomSlot(Source[1]), AtomSlot(Source[2]),
                            Verb(Unary)))
    /\ ParsedPair(Noun, Verb(Binary)) =>
           IsResult(Implied("PartialApplicationLeft", AtomSlot(Source[2]), AtomSlot(Source[1]),
                            Verb(Unary)))
    /\ ParsedPair(Verb(Unary), Verb(Unary)) =>
           IsResult(Implied("Compose", AtomSlot(Source[1]), AtomSlot(Source[2]), Verb(Unary)))
    /\ ParsedPair(Verb(Binary), Verb(Unary)) =>
           IsResult(Implied("ComposeRight", AtomSlot(Source[1]), AtomSlot(Source[2]),
                            Verb(Binary)))
    /\ ParsedPair(Verb(Unary), Verb(Binary)) =>
           IsResult(Implied("ComposeLeft", AtomSlot(Source[2]), AtomSlot(Source[1]),
                            Verb(Binary)))

\* a left section or a ComposeLeft is about to be built below a verb that
\* was just provided
C26_Witness ==
    /\ ArmNow \in {8, 10}
    /\ pos_v(Top(ActiveStack, 1))
    /\ LeftItem[2] # RightItem[2]

(***************************************************************************)
(* C27: learn_name moves the waiters of the name to the new identifier     *)
(***************************************************************************)
\* a step of Scope::begin, and with it of learn_name
Learning == pc = "new" /\ assignments # <<>>

LearnedName == Head(assignments).name

\* the tasks parked on the name that is being learned
NameWaiters == Waiters(blocked_on_name, LearnedName)

\* the waiters of identifier k are all still parked on it after the step
StillParked(k) ==
    /\ k \in DOMAIN blocked_on_id'
    /\ IsPrefix(blocked_on_id[k], blocked_on_id'[k])

\* the step is the completion of k and hands each waiter of k the binding of k
WokenBy(k) ==
    /\ pc = "run" /\ cur[1].id = k
    /\ k \in DOMAIN complete' \ DOMAIN complete
    /\ unblocked' = unblocked \o
          [i \in 1..Len(blocked_on_id[k]) |->
              ParseOperation(blocked_on_id[k][i].id,
                  provide(blocked_on_id[k][i].state,
                          RichIdentifier(k, id_to_name[k]), complete'[k][2]))]

\* the step is the failure of k and fails each waiter of k with BadReference(k)
FailedBy(k) ==
    /\ pc = "run" /\ cur[1].id = k
    /\ k \in DOMAIN failed' \ DOMAIN failed
    /\ \A i \in 1..Len(blocked_on_id[k]) : failed'[blocked_on_id[k][i].id] = BadReference(k)

\* the positions of the history at which task asked for name and found it unknown
ParkedOnName(task, name) ==
    {i \in 1..Len(history) :
        history[i].ev = "Unknown" /\ history[i].task = task /\ history[i].name = name}

\* the positions of the history at which identifier k was issued to name
Learned(k, name) ==
    {i \in 1..Len(history) :
        history[i].ev = "begin" /\ history[i].task = k /\ history[i].name = name}

\* C27: learn_name(name) moves every task of blocked_on_name[name] to
\* blocked_on_id[id] of the identifier it has just allocated, in the same
\* order, and removes the name's waiter list, leaving every other waiter list
\* as it was; from then on the tasks parked on an identifier leave its list
\* only when that identifier completes (each is provided its binding and
\* queued) or fails (each fails with BadReference of it), and no binding of
\* the same name, earlier or later, touches them.
C27_WaiterMigration ==
    /\ [][Learning =>
            /\ LearnedName \notin DOMAIN blocked_on_name'
            /\ \A name \in DOMAIN blocked_on_name \ {LearnedName} :
                    name \in DOMAIN blocked_on_name'
                    /\ blocked_on_name'[name] = blocked_on_name[name]
            /\ DOMAIN blocked_on_name' \subseteq DOMAIN blocked_on_name
            /\ allocator \notin DOMAIN blocked_on_id
            /\ IF NameWaiters = <<>>
               THEN blocked_on_id' = blocked_on_id
               ELSE /\ DOMAIN blocked_on_id' = DOMAIN blocked_on_id \cup {allocator}
                    /\ blocked_on_id'[allocator] = NameWaiters
                    /\ \A k \in DOMAIN blocked_on_id : blocked_on_id'[k] = blocked_on_id[k]
            /\ unblocked' = Append(unblocked, unblocked'[Len(unblocked')])
            /\ unblocked'[Len(unblocked')].id = allocator]_vars
    /\ [][\A k \in DOMAIN blocked_on_id :
            \/ StillParked(k)
            \/ k \notin DOMAIN blocked_on_id' /\ (WokenBy(k) \/ FailedBy(k))]_vars

\* two tasks were parked on an unknown name, a later body bound the name, and
\* the completion of that binding woke the two tasks in the order they were parked in
C27_Witness ==
    \E i, j, l, m \in 1..Len(history) :
        /\ i < j /\ j < l /\ l < m /\ m = l + 1
        /\ history[i].ev = "Unknown" /\ history[j].ev = "Unknown"
        /\ history[i].name = history[j].name
        /\ history[i].task # history[j].task
        /\ history[l].ev = "wake" /\ history[l].task = history[i].task
        /\ history[m].ev = "wake" /\ history[m].task = history[j].task
        /\ history[l].id = history[m].id
        /\ \E b \in Learned(history[l].id, history[i].name) : j < b /\ b < l
        /\ history[l].id \in DOMAIN complete

(***************************************************************************)
(* C28: the order of the identifiers                                       *)
(***************************************************************************)
StrictlyIncreasing(ids) == \A i, j \in 1..Len(ids) : i < j => ids[i] < ids[j]

\* the identifiers a name map binds
BoundIn(n2i) == UNION {{n2i[name][i] : i \in 1..Len(n2i[name])} : name \in DOMAIN n2i}

ParentNames == parent_scope[1].name_to_ids

\* the names only the parent scope binds
ParentOnly == DOMAIN ParentNames \ DOMAIN name_to_ids

\* C28: identifiers are issued strictly increasing by the one allocator the
\* scope tree shares: each learn_name issues the allocator's current value
\* and advances it, so no identifier is issued twice; every name_to_ids list,
\* of the scope and of its parent, is strictly increasing in every reachable
\* state; every identifier bound in the parent is smaller than every
\* identifier bound in the child; and so a name bound only in the parent is
\* found by the strictly-less-than branch of the lookup of any assignment of
\* the child.
C28_IdentifierOrder ==
    /\ [](\A name \in DOMAIN name_to_ids : StrictlyIncreasing(name_to_ids[name]))
    /\ [](\A name \in DOMAIN ParentNames : StrictlyIncreasing(ParentNames[name]))
    /\ [](\A name, other \in DOMAIN name_to_ids :
            name # other => BoundIn([n \in {name} |-> name_to_ids[n]])
                              \cap BoundIn([n \in {other} |-> name_to_ids[n]]) = {})
    /\ [](\A p \in BoundIn(ParentNames) : \A c \in BoundIn(name_to_ids) : p < c)
    /\ [](\A id \in BoundIn(ParentNames) \cup BoundIn(name_to_ids) : id < allocator)
    /\ [](\A name \in ParentOnly : \A as_of \in BoundIn(name_to_ids) :
            /\ lookup_previous_identifier(ThisScope, name, as_of) = <<Last(ParentNames[name])>>
            /\ lookup_identifier(ThisScope, name, as_of) = <<Last(ParentNames[name])>>)
    /\ [][allocator' >= allocator]_vars
    /\ [][Learning =>
            /\ allocator' = allocator + 1
            /\ allocator \notin BoundIn(ParentNames) \cup BoundIn(name_to_ids)
            /\ allocator \notin DOMAIN id_to_name \cup DOMAIN parent_scope[1].id_to_name
            /\ name_to_ids'[LearnedName] = Append(Waiters(name_to_ids, LearnedName), allocator)
            /\ BoundIn(name_to_ids') = BoundIn(name_to_ids) \cup {allocator}
            /\ pc' # "panic"]_vars

\* a name bound twice in the block, whose second assignment found a name of
\* the parent scope alone (`+`) through the lookup
C28_Witness ==
    /\ \E name \in DOMAIN name_to_ids : Len(name_to_ids[name]) >= 2
    /\ \E i \in 1..Len(history) :
          /\ history[i].ev = "Complete"
          /\ history[i].name \in ParentOnly
          /\ history[i].id \in BoundIn(ParentNames)
          /\ history[i].task > FirstChildId

(***************************************************************************)
(* C29: a local binding hides the parent's                                 *)
(***************************************************************************)
\* the driver is about to look up the name its task asks for
LookingUp == pc = "run" /\ AsksName(Parsed)

AskedName == Parsed.result[2]

\* the local bindings of the asked name made before the asking assignment
LocalBefore == {id \in LocalIds(AskedName) : id < cur[1].id}

\* the local bindings of the asked name made by the asking assignment or after it
LocalFrom == {id \in LocalIds(AskedName) : id >= cur[1].id}

Greatest(ids) == CHOOSE id \in ids : \A other \in ids : other <= id

Least(ids) == CHOOSE id \in ids : \A other \in ids : id <= other

\* the event the lookup step adds to the history
LookupEvent == history'[Len(history')]

\* C29: Scope::lookup consults the parent scope only when the name has no
\* binding at all in the local scope.  A name that is bound locally resolves
\* to a local identifier: the nearest earlier local binding, or without one the
\* first local binding at or after the referencing assignment (which may be
\* the referencing assignment itself), never to the parent's binding, even
\* if the parent's binding is complete; the task is then parked, provided or
\* failed according to the state of that local binding.
C29_LocalHidesParent ==
    [][LookingUp =>
        IF LocalIds(AskedName) = {}
        THEN Looked(Parsed) = lookup(parent_scope[1], AskedName, cur[1].id)
        ELSE /\ Looked(Parsed)[1] # "Unknown"
             /\ Looked(Parsed)[2] \in LocalIds(AskedName)
             /\ Looked(Parsed)[2] \notin DOMAIN parent_scope[1].id_to_name
             /\ Looked(Parsed)[2] = IF LocalBefore # {} THEN Greatest(LocalBefore)
                                    ELSE Least(LocalFrom)
             /\ Looked(Parsed)[1] =
                   IF Looked(Parsed)[2] \in DOMAIN complete THEN "Complete"
                   ELSE IF Looked(Parsed)[2] \in DOMAIN failed THEN "Failed"
                   ELSE "Pending"
             /\ Looked(Parsed)[1] = "Pending" =>
                   /\ LookupEvent = Event("Pending", cur[1].id, AskedName, Looked(Parsed)[2], <<>>)
                   /\ Looked(Parsed)[2] \in DOMAIN blocked_on_id'
                   /\ Last(blocked_on_id'[Looked(Parsed)[2]]).id = cur[1].id
             /\ Looked(Parsed)[1] = "Complete" =>
                   /\ LookupEvent.ev = "Complete"
                   /\ LookupEvent.id = Looked(Parsed)[2]
             /\ Looked(Parsed)[1] = "Failed" =>
                   failed'[cur[1].id] = BadReference(Looked(Parsed)[2])]_vars

\* an assignment asked for `x`, which the parent has complete and the block
\* binds only further down, and was parked on that later local binding
C29_Witness ==
    \E i \in 1..Len(history) :
        /\ history[i].ev = "Pending"
        /\ history[i].name = "x"
        /\ history[i].id > history[i].task
        /\ history[i].id \in LocalIds("x")
        /\ \A id \in LocalIds("x") : id > history[i].task
        /\ lookup(parent_scope[1], "x", history[i].task)[1] = "Complete"

(***************************************************************************)
(* C30: the order the queued assignments are run in                        *)
(***************************************************************************)
\* what the top-to-bottom parse of the block came to
TopToBottom == history[RestartedAt].pos

\* the bottom-to-top parse of the block has returned
BottomToTopDone == RestartedAt # 0 /\ pc = "done"

\* C30: running the queued assignments top-to-bottom (the reversed
\* `unblocked` list) or bottom-to-top does not alter the result of the parse:
\* what parse returns and the final status of every assignment (its completed
\* expression and part of speech, its failure and error, or the name or
\* identifier it is parked on) are the same for both orders.
C30_OrderNotObservable == BottomToTopDone => Outcome = TopToBottom

(***************************************************************************)
(* C31: an expression task never yields PendingId                          *)
(***************************************************************************)
\* the tasks the scope holds: queued, or parked on a name or on an identifier
TasksHeld ==
    {unblocked[i] : i \in 1..Len(unblocked)}
    \cup UNION {{blocked_on_name[name][i] : i \in 1..Len(blocked_on_name[name])} :
                   name \in DOMAIN blocked_on_name}
    \cup UNION {{blocked_on_id[k][i] : i \in 1..Len(blocked_on_id[k])} :
                   k \in DOMAIN blocked_on_id}

\* the task is an expression task at rest: a call stack of at least one frame
IsExpressionTask(op) ==
    /\ Len(op.state) >= 1
    /\ \A i \in 1..Len(op.state) :
           DOMAIN op.state[i] = {"input", "stack", "end_reached", "finish"}

\* C31: every task the scope holds is an expression task, begun by
\* Scope::begin, and ExpressionParsnip::parse of the task the driver runs
\* returns only Complete, PendingName or an error, never PendingId: the
\* PendingId branch of the block driver (todo!()) is not reached in any run
\* of BlockParsnip::parse.
C31_NoPendingId ==
    /\ \A op \in TasksHeld : IsExpressionTask(op) /\ op.id \in BlockIds
    /\ pc = "run" =>
          /\ IsExpressionTask(cur[1])
          /\ Parsed.result[1] \in {"Complete", "PendingName", "Err"}
          /\ Parsed.result[1] # "PendingId"

\* the driver runs a task that asks for `ext`, which is pending in the parent
\* scope: the task yields the name, and the lookup finds the parent's identifier
C31_Witness ==
    /\ pc = "run"
    /\ AsksName(Parsed)
    /\ Looked(Parsed)[1] = "Pending"
    /\ Looked(Parsed)[2] \notin BlockIds
    /\ Looked(Parsed)[2] \in DOMAIN parent_scope[1].id_to_name

(***************************************************************************)
(* C32: the reducer neither aborts nor loops                               *)
(***************************************************************************)
\* the task is inside parse
InsideParse == pc \in {"reduce", "shift"}

\* an arm of reduce_stack is about to run
ArmRuns == pc = "reduce" /\ Len(FrameStack) >= 4 /\ MatchingRule(FrameStack) # 0

ArmRunning == MatchingRule(FrameStack)

\* the stack of the same frame after the step
FrameStackAfter == Last(cur'[1].state).stack

\* C32: reduce_stack never aborts and always terminates.  In every reachable
\* state of an expression task each frame's stack has at least four slots;
\* an arm never pops a sentinel as an operand nor a non-adverb where it
\* expects an adverb; every application of an arm strictly shortens the
\* stack, which bounds the iterations of the loop; and every lookahead arm
\* leaves the topmost slot as it was.
C32_ReducerSafety ==
    /\ [](pc # "panic")
    /\ [](\A i \in 1..Len(cur[1].state) : Len(cur[1].state[i].stack) >= 4)
    /\ [][ArmRuns =>
            /\ \A i \in 1..Len(PoppedBy(ArmRunning, FrameStack)) :
                   PoppedBy(ArmRunning, FrameStack)[i][1] = "Some"
            /\ ArmRunning = 1 => pos_a1(Top(FrameStack, 1))
            /\ ArmRunning = 3 => pos_a2(Top(FrameStack, 3))
            /\ pc' = "reduce"
            /\ Len(cur'[1].state) = Len(cur[1].state)
            /\ Front(cur'[1].state) = Front(cur[1].state)
            /\ Len(FrameStackAfter) < Len(FrameStack)
            /\ Len(FrameStackAfter) >= 4
            /\ ArmRunning # 1 => Top(FrameStackAfter, 1) = Top(FrameStack, 1)]_vars
    /\ [][pc = "reduce" => pc' \in {"reduce", "shift"}]_vars

\* the arms that have run, with the slot that was on top of the stack
ArmsRun == {<<history[i].id, history[i].pos>> : i \in 1..Len(history)}

\* the task has finished after the adverb arm (pop_adverb on the top slot),
\* the conjunction arm (pop_adverb under the stashed slot) and another
\* lookahead arm that ran under an end sentinel have all run
C32_Witness ==
    /\ pc = "finished"
    /\ result[1][1] = "Complete"
    /\ \E run \in ArmsRun : run[1] = 1
    /\ \E run \in ArmsRun : run[1] = 3
    /\ \E run \in ArmsRun : run[1] \in {2, 4, 5, 6, 7, 8, 9, 10} /\ run[2] = None
====
